---- MODULE Spec2Model ----
(***************************************************************************)
(* A model of knuspr_cli.py: the KnusprAPI client (session, rate limiter, *)
(* gateway, login/logout, the guarded API operations, the reservation     *)
(* lookup) and the purchase-history aggregation of cmd_frequent.          *)
(*                                                                         *)
(* Python values are modelled as tagged records: JAbsent is a key that is *)
(* not in a dict, JNull is None/null, JInt(n) an integer.  Time is in     *)
(* units of 50 ms.  Floating-point averages are exact rationals.          *)
(***************************************************************************)
EXTENDS Integers, Sequences, FiniteSets, TLC

VARIABLES
    cookies,            \* self.cookies: dict name -> value
    user_id,            \* self.user_id: None or int
    address_id,         \* self.address_id: None or int
    last_request_time,  \* self._last_request_time
    clock,              \* time.time()
    file,               \* SESSION_FILE: <<>> when missing, <<content>> otherwise
    wire,               \* the requests the last operation put on the network
    ret,                \* how the last operation ended (return value or exception)
    pc,                 \* "start"; cmd_frequent: "scan" (in the for loop), "done";
                        \* cmd_meals: "meals_scan", "meals_done"
    orders_to_analyze,  \* cmd_frequent: min(20, max(1, args.orders))
    top_items,          \* cmd_frequent: min(30, max(3, args.top))
    order_history,      \* cmd_frequent: the ids of the listed orders (0: no id)
    next_order,         \* cmd_frequent: index of the order the for loop is at
    product_map,        \* cmd_frequent: the stats, in insertion order
    processed_orders,   \* cmd_frequent
    total_products,     \* cmd_frequent
    result,             \* cmd_frequent: what it printed
    line_items,         \* history: per product, the line items of the counted orders
    price_sum,          \* history: per product, the sum of the prices aggregated
    failed_orders,      \* history: the orders whose fetch or parsing raised
    detail_requests,    \* history: the order-detail requests the scan has sent
    meal_type,          \* cmd_meals: args.meal_type.lower(), "none" in cmd_frequent
    relevant_line_items, \* history: per product, the line items of a relevant category
    detailed,           \* cmd_slots: args.detailed
    json_output,        \* cmd_slots: args.json
    raw_slots,          \* cmd_slots: what get_delivery_slots returned
    all_days,           \* cmd_slots: the days with their flattened slots
    shown_days,         \* cmd_slots: per printed day, the slots listed and their status
    decoded_body,       \* history: the JSON value the last answer's body decoded to
    returned_value,     \* the JSON value the last gateway call or order query returned
    set_cookie_headers  \* history: the Set-Cookie headers of the last gateway call's answer

sessionVars == <<cookies, user_id, address_id, last_request_time, clock, file, wire, ret>>

scanVars == <<pc, orders_to_analyze, top_items, order_history, next_order, product_map,
              processed_orders, total_products, result, line_items, price_sum,
              failed_orders, detail_requests, meal_type, relevant_line_items>>

slotVars == <<detailed, json_output, raw_slots, all_days, shown_days>>

valueVars == <<decoded_body, returned_value, set_cookie_headers>>

vars == <<sessionVars, scanVars, slotVars, valueVars>>

----------------------------------------------------------------------------
\* Python / JSON values

JAbsent == [t |-> "absent", v |-> 0]
NoValue == [t |-> "none", v |-> 0]
JNull == [t |-> "null", v |-> 0]
JInt(n) == [t |-> "int", v |-> n]

\* bool(x) for None, integers, strings, lists and objects
Truthy(j) ==
    \/ (j.t = "int" /\ j.v # 0)
    \/ (j.t = "str" /\ j.v # "")
    \/ (j.t \in {"obj", "list"} /\ j.v # <<>>)

\* dict.get(key): None when the key is absent
PyGet(j) == IF j.t = "absent" THEN JNull ELSE j

EmptyDict == [n \in {} |-> "a"]

----------------------------------------------------------------------------
\* Bounds of the model and constants of the program

MaxTime == 8
MaxOversleep == 1

\* self._min_request_interval = 0.1 s, in units of 50 ms
min_request_interval == 2

----------------------------------------------------------------------------
\* What the network can answer to one request

\* A header text is a sequence of tokens: the separators ";" "=" " " and words
\* that hold none of them.  Hdr(n, v) is the Set-Cookie header n=v
Hdr(n, v) == <<n, "=", v>>

SetCookies == {<<>>, <<Hdr("sid", "a")>>, <<Hdr("sid", "b")>>}

OkResp(hs, b) == [kind |-> "ok", code |-> 200, set_cookie |-> hs, body |-> b]
HttpError(c, hs) == [kind |-> "http_error", code |-> c, set_cookie |-> hs, body |-> "json"]
UrlError == [kind |-> "url_error", code |-> 0, set_cookie |-> <<>>, body |-> "empty"]

Responses ==
    {OkResp(hs, b) : hs \in SetCookies, b \in {"json", "empty", "garbage"}}
    \cup {HttpError(c, hs) : c \in {404, 500}, hs \in {<<>>, <<Hdr("sid", "b")>>}}
    \cup {UrlError}

----------------------------------------------------------------------------
\* The client object and its environment, as one value

Self ==
    [cookies |-> cookies, user_id |-> user_id, address_id |-> address_id,
     last_request_time |-> last_request_time, clock |-> clock, file |-> file,
     wire |-> <<>>]

\* a limiter that records the time but never sleeps
rate_limit_without_sleep(s, over) == [s EXCEPT !.last_request_time = s.clock]

\* _rate_limit: sleep until the interval has elapsed, then record the time.
\* over is how much longer than asked time.sleep() slept.
rate_limit(s, over) ==
    LET now == s.clock
        elapsed == now - s.last_request_time
        woke == IF elapsed < min_request_interval
                THEN now + (min_request_interval - elapsed) + over
                ELSE now
    IN  [s EXCEPT !.clock = woke, !.last_request_time = woke]

\* str.strip() of a tokenised text
RECURSIVE lstrip(_)
lstrip(text) == IF text # <<>> /\ Head(text) = " " THEN lstrip(Tail(text)) ELSE text

RECURSIVE rstrip(_)
rstrip(text) ==
    IF text # <<>> /\ text[Len(text)] = " " THEN rstrip(SubSeq(text, 1, Len(text) - 1)) ELSE text

strip(text) == rstrip(lstrip(text))

\* text.split(sep, 1): the part before the first sep and the part after it
RECURSIVE split_once(_, _, _)
split_once(before, text, sep) ==
    IF text = <<>> THEN [found |-> FALSE, before |-> before, after |-> <<>>]
    ELSE IF Head(text) = sep THEN [found |-> TRUE, before |-> before, after |-> Tail(text)]
    ELSE split_once(Append(before, Head(text)), Tail(text), sep)

\* the string a tokenised text stands for
RECURSIVE concat(_)
concat(text) == IF text = <<>> THEN "" ELSE Head(text) \o concat(Tail(text))

\* a _parse_cookie that keeps the value a name already has
parse_cookie_first_wins(c, h) ==
    LET cookie_part == strip(split_once(<<>>, h, ";").before)
        pair == split_once(<<>>, cookie_part, "=")
        name == concat(strip(pair.before))
    IN  IF ~pair.found \/ name \in DOMAIN c THEN c
        ELSE [n \in (DOMAIN c) \cup {name} |->
                IF n = name THEN concat(strip(pair.after)) ELSE c[n]]

\* _parse_cookie: parts[0] of split(";"), stripped; if it holds "=", the
\* stripped name and value of split("=", 1) are stored
parse_cookie(c, h) ==
    LET cookie_part == strip(split_once(<<>>, h, ";").before)
        pair == split_once(<<>>, cookie_part, "=")
        name == concat(strip(pair.before))
    IN  IF ~pair.found THEN c
        ELSE [n \in (DOMAIN c) \cup {name} |->
                IF n = name THEN concat(strip(pair.after)) ELSE c[n]]

RECURSIVE parse_cookies(_, _)
parse_cookies(c, hs) ==
    IF hs = <<>> THEN c ELSE parse_cookies(parse_cookie(c, Head(hs)), Tail(hs))

\* "; ".join(f"{k}={v}" for k, v in self.cookies.items()).  The dict yields its
\* items in insertion order, which the cookies of the model do not keep; the
\* order taken here is an arbitrary one.
RECURSIVE cookie_str(_)
cookie_str(c) ==
    IF DOMAIN c = {} THEN <<>>
    ELSE LET k == CHOOSE n \in DOMAIN c : TRUE
             rest == [n \in (DOMAIN c) \ {k} |-> c[n]]
         IN  <<k, "=", c[k]>> \o (IF DOMAIN rest = {} THEN <<>>
                                  ELSE <<";", " ">> \o cookie_str(rest))

\* _get_headers: the Cookie header, <<>> if the request carries none
get_headers(s) == IF DOMAIN s.cookies # {} THEN cookie_str(s.cookies) ELSE <<>>

\* urlopen sends the request; cookie is self.cookies at that moment.  term,
\* offset and answer are filled in by get_favorites for its probe searches.
send_request(s) ==
    [s EXCEPT !.wire = Append(@, [t |-> s.clock, cookie |-> s.cookies,
                                  header |-> get_headers(s),
                                  term |-> "", offset |-> 0, answer |-> ""])]

\* a _make_request that reads the Set-Cookie headers of error answers too
make_request_merging_errors(s, resp, over) ==
    LET sent == send_request(rate_limit(s, over)) IN
    CASE resp.kind = "ok" ->
            [s |-> [sent EXCEPT !.cookies = parse_cookies(@, resp.set_cookie)],
             exc |-> IF resp.body = "garbage" THEN "JSONDecodeError" ELSE "none",
             status |-> JNull,
             empty |-> resp.body = "empty"]
      [] resp.kind = "http_error" ->
            [s |-> [sent EXCEPT !.cookies = parse_cookies(@, resp.set_cookie)],
             exc |-> "KnusprAPIError", status |-> JInt(resp.code), empty |-> FALSE]
      [] OTHER ->
            [s |-> sent, exc |-> "KnusprAPIError", status |-> JNull, empty |-> FALSE]

\* _make_request.  exc is the exception that leaves it ("none": it returns),
\* status the KnusprAPIError's status, empty whether it returned {}.
make_request(s, resp, over) ==
    LET sent == send_request(rate_limit(s, over)) IN
    CASE resp.kind = "ok" ->
            [s |-> [sent EXCEPT !.cookies = parse_cookies(@, resp.set_cookie)],
             exc |-> IF resp.body = "garbage" THEN "JSONDecodeError" ELSE "none",
             status |-> JNull,
             empty |-> resp.body = "empty"]
      [] resp.kind = "http_error" ->
            [s |-> sent, exc |-> "KnusprAPIError", status |-> JInt(resp.code),
             empty |-> FALSE]
      [] OTHER ->
            [s |-> sent, exc |-> "KnusprAPIError", status |-> JNull, empty |-> FALSE]

\* JSON strings and objects; an object is the sequence of its members
JStr(str) == [t |-> "str", v |-> str]
JObj(members) == [t |-> "obj", v |-> members]
JList(items) == [t |-> "list", v |-> items]
Member(k, v) == [k |-> k, v |-> v]

\* A JSON text is a sequence of tokens: { } : , null - the digits, and a
\* string as its content between two quote tokens.
Digits == <<"0", "1", "2", "3", "4", "5", "6", "7", "8", "9">>
IsDigit(tok) == \E d \in 1..Len(Digits) : Digits[d] = tok
DigitValue(tok) == (CHOOSE d \in 1..Len(Digits) : Digits[d] = tok) - 1

RECURSIVE dump_nat(_)
dump_nat(n) ==
    IF n < Len(Digits) THEN <<Digits[n + 1]>>
    ELSE dump_nat(n \div Len(Digits)) \o <<Digits[(n % Len(Digits)) + 1]>>

\* an encoder that writes the last digit only
dump_last_digit(n) == <<Digits[(n % Len(Digits)) + 1]>>

dump_int(n) == IF n < 0 THEN <<"-">> \o dump_nat(-n) ELSE dump_nat(n)

\* json.dump
RECURSIVE json_dump(_), dump_members(_)
json_dump(j) ==
    CASE j.t = "null" -> <<"null">>
      [] j.t = "int" -> dump_int(j.v)
      [] j.t = "str" -> <<"\"", j.v, "\"">>
      [] j.t = "obj" -> <<"{">> \o dump_members(j.v) \o <<"}">>

dump_members(members) ==
    IF members = <<>> THEN <<>>
    ELSE <<"\"", Head(members).k, "\"", ":">> \o json_dump(Head(members).v)
            \o (IF Len(members) > 1 THEN <<",">> \o dump_members(Tail(members)) ELSE <<>>)

Failed(text) == [ok |-> FALSE, value |-> JNull, rest |-> text]
Parsed(value, rest) == [ok |-> TRUE, value |-> value, rest |-> rest]

RECURSIVE parse_digits(_, _)
parse_digits(text, n) ==
    IF text # <<>> /\ IsDigit(Head(text))
    THEN parse_digits(Tail(text), Len(Digits) * n + DigitValue(Head(text)))
    ELSE Parsed(JInt(n), text)

RECURSIVE parse_value(_), parse_members(_, _)
parse_value(text) ==
    IF text = <<>> THEN Failed(text)
    ELSE
    CASE Head(text) = "null" -> Parsed(JNull, Tail(text))
      [] Head(text) = "\"" ->
            IF Len(text) >= 3 /\ text[3] = "\""
            THEN Parsed(JStr(text[2]), SubSeq(text, 4, Len(text)))
            ELSE Failed(text)
      [] Head(text) = "-" ->
            IF Len(text) >= 2 /\ IsDigit(text[2])
            THEN LET r == parse_digits(Tail(text), 0) IN Parsed(JInt(-(r.value.v)), r.rest)
            ELSE Failed(text)
      [] IsDigit(Head(text)) -> parse_digits(text, 0)
      [] Head(text) = "{" ->
            IF Len(text) >= 2 /\ text[2] = "}"
            THEN Parsed(JObj(<<>>), SubSeq(text, 3, Len(text)))
            ELSE parse_members(Tail(text), <<>>)
      [] OTHER -> Failed(text)

parse_members(text, members) ==
    IF Len(text) >= 4 /\ text[1] = "\"" /\ text[3] = "\"" /\ text[4] = ":"
    THEN LET r == parse_value(SubSeq(text, 5, Len(text)))
             more == Append(members, Member(text[2], r.value))
         IN  IF ~r.ok \/ r.rest = <<>> THEN Failed(text)
             ELSE IF Head(r.rest) = "}" THEN Parsed(JObj(more), Tail(r.rest))
             ELSE IF Head(r.rest) = "," THEN parse_members(Tail(r.rest), more)
             ELSE Failed(text)
    ELSE Failed(text)

\* json.load: ok is FALSE for json.JSONDecodeError
json_load(text) ==
    LET r == parse_value(text) IN IF r.ok /\ r.rest = <<>> THEN r ELSE Failed(text)

\* data.get(k, default) on an object, the last member of a name counting
dict_get(obj, k, default) ==
    LET hits == {i \in 1..Len(obj.v) : obj.v[i].k = k} IN
    IF hits = {} THEN default
    ELSE obj.v[CHOOSE i \in hits : \A j \in hits : j <= i].v

\* the cookies dict as a JSON object
RECURSIVE cookie_members(_)
cookie_members(c) ==
    IF DOMAIN c = {} THEN <<>>
    ELSE LET n == CHOOSE n \in DOMAIN c : TRUE IN
         <<Member(n, JStr(c[n]))>> \o cookie_members([m \in DOMAIN c \ {n} |-> c[m]])

\* the decoded value of "cookies" as self.cookies: an object is the dict
\* of its members, any other value is kept as it is
cookies_of(obj) ==
    IF obj.t = "obj"
    THEN [n \in {obj.v[i].k : i \in 1..Len(obj.v)} |-> dict_get(obj, n, JNull).v]
    ELSE obj

\* session_data of _save_session
session_data(s) ==
    JObj(<<Member("cookies", JObj(cookie_members(s.cookies))),
           Member("user_id", s.user_id),
           Member("address_id", s.address_id)>>)

\* _save_session
save_session(s) == [s EXCEPT !.file = <<json_dump(session_data(s))>>]

\* _load_session leaves with AttributeError: the file decodes to a value
\* that is not an object, so data.get fails on line 187
load_session_raises(s) ==
    /\ s.file # <<>>
    /\ json_load(s.file[1]).ok
    /\ json_load(s.file[1]).value.t # "obj"

\* _load_session
load_session(s) ==
    IF s.file = <<>> THEN s
    ELSE LET data == json_load(s.file[1]) IN
         IF ~data.ok \/ data.value.t # "obj" THEN s
         ELSE [s EXCEPT !.cookies = cookies_of(dict_get(data.value, "cookies", JObj(<<>>))),
                        !.user_id = dict_get(data.value, "user_id", JNull),
                        !.address_id = dict_get(data.value, "address_id", JNull)]

\* _clear_session
clear_session(s) ==
    [s EXCEPT !.cookies = EmptyDict, !.user_id = JNull, !.address_id = JNull,
              !.file = <<>>]

\* is_logged_in
is_logged_in(s) == (DOMAIN s.cookies # {}) /\ Truthy(s.user_id)

----------------------------------------------------------------------------
\* How an operation ends

\* The login response body as login() reads it: the status field, whether
\* data, data.user and data.address are absent, null or objects, and the ids.
LoginJson(st, d, u, i, a, x) ==
    [status |-> st, data |-> d, user |-> u, uid |-> i, address |-> a, aid |-> x]

\* the JSON object {}
EmptyObject == LoginJson(JAbsent, "absent", "absent", JAbsent, "absent", JAbsent)

\* op: the operation; exc: the Python exception that left it ("none": it
\* returned); kind: the error class of the design; status: the exception's
\* status attribute; value: what it returned; arg: the decoded login response;
\* http, body: what the last request of the operation was answered with.
Result(op, exc, kind, status, value, arg, http, body) ==
    [op |-> op, exc |-> exc, kind |-> kind, status |-> status, value |-> value,
     arg |-> arg, http |-> http, body |-> body]

\* how the request made_request served was answered
HttpOf(resp) ==
    CASE resp.kind = "ok" -> "2xx"
      [] resp.kind = "http_error" -> IF resp.code = 404 THEN "404" ELSE "5xx"
      [] OTHER -> "unreachable"

Returned(op, value, resp, body) ==
    Result(op, "none", "ok", JNull, value, EmptyObject, HttpOf(resp), body)

\* raise KnusprAPIError("Not logged in. Run 'knuspr login' first.")
NotLoggedIn(op) ==
    Result(op, "KnusprAPIError", "NotAuthenticated", JNull, "none", EmptyObject,
           "unsent", "none")

\* an exception that leaves _make_request, as the caller sees it
GatewayError(op, m, resp) ==
    Result(op, m.exc,
           IF m.exc = "KnusprAPIError"
           THEN (IF m.status = JNull THEN "ConnectionError" ELSE "StatusError")
           ELSE m.exc,
           m.status, "none", EmptyObject, HttpOf(resp), resp.body)

----------------------------------------------------------------------------
\* Login and logout

Statuses == {JAbsent, JNull, JInt(200), JInt(202), JInt(401)}

UserIdValues == {JAbsent, JNull, JInt(0), JInt(7), JInt(42)}

AddressValues ==
    {<<"absent", JAbsent>>, <<"null", JAbsent>>, <<"obj", JInt(5)>>, <<"obj", JAbsent>>}

\* every status with every id; the address shapes and the null containers
\* with the statuses and ids login() lets through
LoginBodies ==
    {LoginJson(st, "obj", "obj", i, "absent", JAbsent) :
        st \in Statuses, i \in UserIdValues}
    \cup {LoginJson(st, "obj", "obj", i, a[1], a[2]) :
        st \in {JAbsent, JInt(202)}, i \in {JInt(7), JInt(42)}, a \in AddressValues}
    \cup {LoginJson(st, d, "absent", JAbsent, "absent", JAbsent) :
        st \in {JAbsent, JInt(401)}, d \in {"absent", "null"}}
    \cup {LoginJson(st, "obj", u, JAbsent, "absent", JAbsent) :
        st \in {JAbsent, JInt(401)}, u \in {"absent", "null"}}

\* a successful login with an address, one without, and a refused one
FewLogins ==
    {LoginJson(JInt(202), "obj", "obj", JInt(42), "obj", JInt(5)),
     LoginJson(JAbsent, "obj", "obj", JInt(7), "absent", JAbsent),
     LoginJson(JInt(401), "absent", "absent", JAbsent, "absent", JAbsent)}

login(s, resp, js, over) ==
    LET m == make_request(s, resp, over) IN
    IF m.exc # "none" THEN [s |-> m.s, ret |-> GatewayError("login", m, resp)]
    ELSE
    LET response == IF m.empty THEN EmptyObject ELSE js
        \* response.get("status", 200)
        status == IF response.status.t = "absent" THEN JInt(200) ELSE response.status
        \* data = response.get("data", {}); user = data.get("user", {})
        userTag == IF response.data = "obj" THEN response.user ELSE "absent"
        id == IF userTag = "obj" THEN PyGet(response.uid) ELSE JNull
        \* data.get("address", {}).get("id")
        addrTag == IF response.data = "obj" THEN response.address ELSE "absent"
        aid == IF addrTag = "obj" THEN PyGet(response.aid) ELSE JNull
        Raise(exc, kind, st) ==
            Result("login", exc, kind, st, "none", response, "2xx", resp.body)
    IN  IF status \notin {JInt(200), JInt(202), JNull}
        THEN [s |-> m.s, ret |-> Raise("KnusprAPIError", "AuthFailure", status)]
        ELSE IF response.data = "null" \/ userTag = "null"
        \* None.get(...)
        THEN [s |-> m.s, ret |-> Raise("AttributeError", "AttributeError", JNull)]
        ELSE IF ~Truthy(id)
        THEN [s |-> m.s, ret |-> Raise("KnusprAPIError", "AuthFailure", JNull)]
        ELSE LET s1 == [m.s EXCEPT !.user_id = id] IN
             IF addrTag = "null"
             THEN [s |-> s1, ret |-> Raise("AttributeError", "AttributeError", JNull)]
             ELSE [s |-> save_session([s1 EXCEPT !.address_id = aid]),
                   ret |-> Result("login", "none", "ok", JNull, "profile", response,
                                  "2xx", resp.body)]

\* a logout that clears the session only when the POST went through
logout_when_answered(s, resp, over) ==
    LET m == make_request(s, resp, over) IN
    [s |-> IF m.exc = "none" THEN clear_session(m.s) ELSE m.s,
     ret |-> IF m.exc \in {"none", "KnusprAPIError"}
             THEN Returned("logout", "None", resp, resp.body)
             ELSE GatewayError("logout", m, resp)]

\* logout: except KnusprAPIError: pass; finally: _clear_session()
logout(s, resp, over) ==
    LET m == make_request(s, resp, over) IN
    [s |-> clear_session(m.s),
     ret |-> IF m.exc \in {"none", "KnusprAPIError"}
             THEN Returned("logout", "None", resp, resp.body)
             ELSE GatewayError("logout", m, resp)]

----------------------------------------------------------------------------
\* The operations that need a session.  Each starts with
\*     if not self.is_logged_in(): raise KnusprAPIError("Not logged in. ...")
\* and then sends its request through _make_request.

\* a variant that takes a failed request for an empty answer
guarded_request_swallowing(op, s, resp, over) ==
    IF ~is_logged_in(s) THEN [s |-> s, ret |-> NotLoggedIn(op)]
    ELSE LET m == make_request(s, resp, over) IN
         [s |-> m.s, ret |-> Returned(op, "value", resp, resp.body)]

guarded_request(op, s, resp, over) ==
    IF ~is_logged_in(s) THEN [s |-> s, ret |-> NotLoggedIn(op)]
    ELSE LET m == make_request(s, resp, over) IN
         [s |-> m.s,
          ret |-> IF m.exc # "none" THEN GatewayError(op, m, resp)
                  ELSE Returned(op, "value", resp, resp.body)]

\* an operation that sends its request without looking at the session
unguarded_request(op, s, resp, over) ==
    LET m == make_request(s, resp, over) IN
    [s |-> m.s,
     ret |-> IF m.exc # "none" THEN GatewayError(op, m, resp)
             ELSE Returned(op, "value", resp, resp.body)]

premium_info_unguarded(s, resp, over) == unguarded_request("get_premium_info", s, resp, over)

search_products(s, resp, over) == guarded_request("search_products", s, resp, over)
\* a variant that persists the session after its request
get_cart_saving(s, resp, over) ==
    LET r == guarded_request("get_cart", s, resp, over) IN [r EXCEPT !.s = save_session(r.s)]

get_cart(s, resp, over) == guarded_request("get_cart", s, resp, over)
add_to_cart(s, resp, over) == guarded_request("add_to_cart", s, resp, over)
remove_from_cart(s, resp, over) == guarded_request("remove_from_cart", s, resp, over)
update_cart_quantity(s, resp, over) == guarded_request("update_cart_quantity", s, resp, over)
get_order_history(s, resp, over) == guarded_request("get_order_history", s, resp, over)
get_order_detail(s, resp, over) == guarded_request("get_order_detail", s, resp, over)
get_premium_info(s, resp, over) == guarded_request("get_premium_info", s, resp, over)
get_reusable_bags_info(s, resp, over) == guarded_request("get_reusable_bags_info", s, resp, over)
get_announcements(s, resp, over) == guarded_request("get_announcements", s, resp, over)
\* a reserve_slot that takes a failed POST for an empty confirmation
reserve_slot_swallowing(s, resp, over) ==
    guarded_request_swallowing("reserve_slot", s, resp, over)

reserve_slot(s, resp, over) == guarded_request("reserve_slot", s, resp, over)
cancel_reservation(s, resp, over) == guarded_request("cancel_reservation", s, resp, over)

\* the slot request sent by whoever is logged in, address or not
delivery_slots_unchecked(s, resp, over) ==
    guarded_request("get_delivery_slots", s, resp, over)

\* get_delivery_slots: also needs the user id and the address id
get_delivery_slots(s, resp, over) ==
    IF ~is_logged_in(s) THEN [s |-> s, ret |-> NotLoggedIn("get_delivery_slots")]
    ELSE IF ~Truthy(s.user_id) \/ ~Truthy(s.address_id)
    THEN [s |-> s,
          ret |-> Result("get_delivery_slots", "KnusprAPIError", "MissingAddressContext",
                         JNull, "none", EmptyObject, "unsent", "none")]
    ELSE guarded_request("get_delivery_slots", s, resp, over)

\* What _make_request returns for a 2xx answer whose body decodes to raw:
\* json.loads(content), {} when the body is empty
request_value(resp, raw) == IF resp.body = "empty" THEN JObj(<<>>) ELSE raw

\* "data" in response
has_data(response) == \E i \in 1..Len(response.v) : response.v[i].k = "data"

\* a gateway call on its own: _make_request and what it returns
gateway_call(s, resp, raw, over) ==
    LET m == make_request(s, resp, over) IN
    IF m.exc # "none"
    THEN [s |-> m.s, ret |-> GatewayError("make_request", m, resp),
          headers |-> resp.set_cookie]
    ELSE [s |-> m.s, ret |-> Returned("make_request", "value", resp, resp.body),
          decoded |-> raw, returned |-> request_value(resp, raw),
          headers |-> resp.set_cookie]

\* what get_order_history returns for the gateway's response
order_history_value(response) ==
    IF response.t = "list" THEN response
    ELSE LET data == IF response.t = "obj"
                     THEN dict_get(response, "data", response) ELSE response
         IN  IF data.t = "list" THEN data
             ELSE IF Truthy(data) THEN JList(<<data>>) ELSE JList(<<>>)

\* what get_order_detail returns for the gateway's response
order_detail_value(response) ==
    IF response.t = "obj" THEN dict_get(response, "data", response) ELSE response

\* get_order_history and get_order_detail with the value they return
order_history_call(s, resp, raw, over) ==
    LET r == get_order_history(s, resp, over) IN
    IF r.ret.exc # "none" THEN r
    ELSE [s |-> r.s, ret |-> r.ret, decoded |-> raw,
          returned |-> order_history_value(request_value(resp, raw))]

order_detail_call(s, resp, raw, over) ==
    LET r == get_order_detail(s, resp, over) IN
    IF r.ret.exc # "none" THEN r
    ELSE [s |-> r.s, ret |-> r.ret, decoded |-> raw,
          returned |-> order_detail_value(request_value(resp, raw))]

\* add_favorite / remove_favorite: the answer must carry the wanted flag
\* (want), else KnusprAPIError("Failed to add/remove product ...").
\* flag is bool(data.get("favourite")) of the answer.
set_favorite(op, want, s, resp, flag, over) ==
    LET r == guarded_request(op, s, resp, over) IN
    IF r.ret.exc = "none" /\ (flag /\ r.ret.body # "empty") # want
    THEN [s |-> r.s,
          ret |-> Result(op, "KnusprAPIError", "ToggleFailed", JNull, "none",
                         EmptyObject, "2xx", resp.body)]
    ELSE r

add_favorite(s, resp, flag, over) == set_favorite("add_favorite", TRUE, s, resp, flag, over)
remove_favorite(s, resp, flag, over) == set_favorite("remove_favorite", FALSE, s, resp, flag, over)

\* The decoded body of the reservation endpoint's answer
ReservationBodies ==
    {"empty_object", "data_null", "data_object", "bare_object", "list", "null"}

\* a lookup that takes every error of the gateway for "no reservation"
reservation_or_none(s, resp, shape, over) ==
    IF ~is_logged_in(s) THEN [s |-> s, ret |-> NotLoggedIn("get_current_reservation")]
    ELSE
    LET m == make_request(s, resp, over) IN
    [s |-> m.s,
     ret |-> IF m.exc = "KnusprAPIError"
             THEN Returned("get_current_reservation", "None", resp, "none")
             ELSE IF m.exc # "none"
             THEN GatewayError("get_current_reservation", m, resp)
             ELSE Returned("get_current_reservation",
                           IF m.empty \/ shape \in {"empty_object", "data_null", "null"}
                           THEN "None" ELSE "dict",
                           resp, IF m.empty THEN "empty" ELSE shape)]

\* get_current_reservation: None on a 404, other errors are raised again
get_current_reservation(s, resp, shape, over) ==
    IF ~is_logged_in(s) THEN [s |-> s, ret |-> NotLoggedIn("get_current_reservation")]
    ELSE
    LET m == make_request(s, resp, over)
        response == IF m.empty THEN "empty_object" ELSE shape
        value ==
            CASE response = "empty_object" -> "None"   \* ... if response else None
              [] response = "data_null" -> "None"      \* response.get("data", response)
              [] response = "data_object" -> "dict"
              [] response = "bare_object" -> "dict"
              [] response = "list" -> "list"           \* not a dict: returned as it is
              [] OTHER -> "None"
    IN  [s |-> m.s,
         ret |-> IF m.exc = "KnusprAPIError" /\ m.status = JInt(404)
                 THEN Returned("get_current_reservation", "None", resp, "none")
                 ELSE IF m.exc # "none"
                 THEN GatewayError("get_current_reservation", m, resp)
                 ELSE Returned("get_current_reservation", value, resp,
                               IF m.empty THEN "empty" ELSE shape)]

----------------------------------------------------------------------------
\* cmd_slot_reserve: the reservation POST and the lookup that follows it

\* int(args.slot_id) for the arguments of SlotIdArgs: a run of digits has a
\* value, anything else raises ValueError
IsSlotId(text) == text # <<>> /\ \A i \in 1..Len(text) : IsDigit(text[i])

\* What a run of cmd_slot_reserve leaves behind.  value: the step at which
\* the run ended ("precondition", "post", "requery", "output", "done");
\* status: the exit code, null if an exception left the command; http: how
\* the POST was answered; body: how the lookup was answered ("unsent": none
\* was sent).
ReserveResult(exc, kind, exit, step, post, requery) ==
    Result("cmd_slot_reserve", exc, kind, exit, step, EmptyObject, post, requery)

cmd_slot_reserve(s, slot_id, as_json, post, query, shape, over) ==
    IF ~is_logged_in(s)
    THEN [s |-> s, ret |-> ReserveResult("none", "NotAuthenticated", JInt(1), "precondition",
                                         "unsent", "unsent")]
    ELSE IF ~IsSlotId(slot_id)                           \* except ValueError: return 1
    THEN [s |-> s, ret |-> ReserveResult("none", "ValueError", JInt(1), "precondition",
                                         "unsent", "unsent")]
    ELSE
    LET p == reserve_slot(s, post, over) IN
    IF p.ret.exc = "KnusprAPIError"                      \* except KnusprAPIError: return 1
    THEN [s |-> p.s, ret |-> ReserveResult("none", p.ret.kind, JInt(1), "post",
                                           HttpOf(post), "unsent")]
    ELSE IF p.ret.exc # "none"
    THEN [s |-> p.s, ret |-> ReserveResult(p.ret.exc, p.ret.exc, JNull, "post",
                                           HttpOf(post), "unsent")]
    ELSE
    LET q == get_current_reservation(p.s, query, shape, over) IN
    IF q.ret.exc = "KnusprAPIError"
    THEN [s |-> q.s, ret |-> ReserveResult("none", q.ret.kind, JInt(1), "requery",
                                           HttpOf(post), HttpOf(query))]
    ELSE IF q.ret.exc # "none"
    THEN [s |-> q.s, ret |-> ReserveResult(q.ret.exc, q.ret.exc, JNull, "requery",
                                           HttpOf(post), HttpOf(query))]
    ELSE IF ~as_json /\ q.ret.value = "list"             \* (reservation or {}).get(...)
    THEN [s |-> q.s, ret |-> ReserveResult("AttributeError", "AttributeError", JNull, "output",
                                           HttpOf(post), HttpOf(query))]
    ELSE [s |-> q.s, ret |-> ReserveResult("none", "ok", JInt(0), "done",
                                           HttpOf(post), HttpOf(query))]

----------------------------------------------------------------------------
\* get_favorites: four probe terms, pages of 500 up to offset 1000

search_terms == <<"e", "a", "n", "i">>
fav_limit == 500
fav_max_offset == 1000

\* One page of a probe search: the answer and whether it holds fav_limit items
FavPages ==
    {[resp |-> r, full |-> f] :
        r \in {OkResp(<<>>, "json"), HttpError(500, <<>>), OkResp(<<>>, "garbage")},
        f \in BOOLEAN}

\* the probe search as the wire shows it: its term and offset, and whether
\* the answer was an error, not JSON, a full page or a short one
probe(s, term, offset, p, m) ==
    [s EXCEPT !.wire[Len(s.wire)] =
        [@ EXCEPT !.term = term, !.offset = offset,
                  !.answer = IF m.exc = "KnusprAPIError" THEN "error"
                             ELSE IF m.exc # "none" THEN "garbage"
                             ELSE IF ~p.full \/ m.empty THEN "short" ELSE "full"]]

\* a paging that goes on after a short page
RECURSIVE fav_term_paging_on(_, _, _, _, _)
fav_term_paging_on(s, term, offset, pages, over) ==
    IF ~(offset < fav_max_offset) \/ pages = <<>>
    THEN [s |-> s, pages |-> pages, exc |-> "none", http |-> "2xx"]
    ELSE
    LET p == Head(pages)
        m == make_request(s, p.resp, over)
        sent == probe(m.s, term, offset, p, m)
    IN  IF m.exc # "none"
        THEN [s |-> sent, pages |-> Tail(pages), exc |-> "none", http |-> HttpOf(p.resp)]
        ELSE fav_term_paging_on(sent, term, offset + fav_limit, Tail(pages), over)

\* the while loop of one term; pages are the answers still to come, http is
\* how the request that ended the loop was answered
RECURSIVE fav_term(_, _, _, _, _)
fav_term(s, term, offset, pages, over) ==
    IF ~(offset < fav_max_offset) \/ pages = <<>>
    THEN [s |-> s, pages |-> pages, exc |-> "none", http |-> "2xx"]
    ELSE
    LET p == Head(pages)
        m == make_request(s, p.resp, over)
        sent == probe(m.s, term, offset, p, m)
    IN  IF m.exc = "KnusprAPIError"                      \* except KnusprAPIError: break
        THEN [s |-> sent, pages |-> Tail(pages), exc |-> "none", http |-> HttpOf(p.resp)]
        ELSE IF m.exc # "none"
        THEN [s |-> sent, pages |-> Tail(pages), exc |-> m.exc, http |-> "2xx"]
        ELSE IF ~p.full \/ m.empty                       \* len(products) < limit: break
        THEN [s |-> sent, pages |-> Tail(pages), exc |-> "none", http |-> "2xx"]
        ELSE fav_term(sent, term, offset + fav_limit, Tail(pages), over)

\* the for loop over the terms
RECURSIVE fav_terms(_, _, _, _)
fav_terms(s, i, pages, over) ==
    IF i > Len(search_terms) THEN [s |-> s, exc |-> "none", http |-> "2xx"]
    ELSE LET t == fav_term(s, search_terms[i], 0, pages, over) IN
         IF t.exc # "none" THEN [s |-> t.s, exc |-> t.exc, http |-> t.http]
         ELSE LET rest == fav_terms(t.s, i + 1, t.pages, over) IN
              [rest EXCEPT !.http = IF t.http # "2xx" THEN t.http ELSE rest.http]

get_favorites(s, pages, over) ==
    IF ~is_logged_in(s) THEN [s |-> s, ret |-> NotLoggedIn("get_favorites")]
    ELSE LET r == fav_terms(s, 1, pages, over) IN
         [s |-> r.s,
          ret |-> Result("get_favorites", r.exc, IF r.exc = "none" THEN "ok" ELSE r.exc,
                         JNull, IF r.exc = "none" THEN "list" ELSE "none", EmptyObject,
                         r.http, "none")]

----------------------------------------------------------------------------
\* cmd_frequent: the purchase-history aggregation.  Fields of a stat that no
\* property reads (name, brand, quantity, dates, category) are left out.

MaxOrders == 3

Products == {1, 2, 3, 4}

RECURSIVE GCD(_, _)
GCD(a, b) == IF b = 0 THEN a ELSE GCD(b, a % b)

\* the rational n/d, d > 0, in lowest terms
Rat(n, d) == LET g == GCD(n, d) IN [num |-> n \div g, den |-> d \div g]

\* (current_avg * (existing["frequency"] - 1) + product["price"]) / existing["frequency"]
running_average(avg, frequency, price) ==
    Rat(avg.num * (frequency - 1) + price * avg.den, avg.den * frequency)

\* One entry of an order's products list.  shape "null": the entry is no
\* dict (product.get raises); "bad_category": its categories hold an entry
\* that is no dict (cat.get raises).
Item(sh, pid, named, price) ==
    [shape |-> sh, pid |-> pid, named |-> named, price |-> price, categories |-> <<>>]

Priced(pid, price) == Item("dict", JInt(pid), TRUE, JInt(price))
Unpriced(pid) == Item("dict", JInt(pid), TRUE, JAbsent)
NoId == Item("dict", JAbsent, TRUE, JInt(10))
NoName == Item("dict", JInt(1), FALSE, JInt(10))
NoDict == Item("null", JAbsent, FALSE, JAbsent)
BadCategory(pid) == Item("bad_category", JInt(pid), TRUE, JInt(10))

\* the products lists the order details carry
OrderItemLists ==
    {<<>>,
     <<Priced(1, 10)>>, <<Priced(1, 12)>>, <<Priced(1, 14)>>, <<Unpriced(1)>>,
     <<Priced(2, 10)>>,
     <<Priced(1, 10), Priced(1, 12)>>,
     <<Priced(2, 10), Unpriced(1)>>,
     <<Priced(1, 10), NoDict, Priced(1, 12)>>,
     <<BadCategory(1), Priced(2, 10)>>,
     <<NoId, NoName, Priced(2, 10)>>}

RECURSIVE SeqsUpTo(_, _)
SeqsUpTo(S, n) ==
    IF n = 0 THEN {<<>>}
    ELSE LET shorter == SeqsUpTo(S, n - 1) IN
         shorter \cup {Append(q, x) : q \in {r \in shorter : Len(r) = n - 1}, x \in S}

\* the listing of the delivered orders: their ids, 0 for an order without one
Histories == SeqsUpTo({0, 1}, MaxOrders)

\* index of key in the map, 0 when it is not in it
IndexOf(map, key) ==
    LET hits == {i \in 1..Len(map) : map[i].product_id = key} IN
    IF hits = {} THEN 0 ELSE CHOOSE i \in hits : TRUE

\* the number a price counts as: product.get("price") or 0
PriceOr0(price) == IF Truthy(price) THEN price.v ELSE 0

\* The body of "for product in products".  a: product_map, total_products and
\* the price_sum history; raised: an exception leaves the loop body.
process_product(a, product) ==
    IF product.shape = "null" THEN [a |-> a, raised |-> TRUE]
    ELSE IF ~Truthy(product.pid) \/ ~product.named THEN [a |-> a, raised |-> FALSE]
    ELSE
    LET counted == [a EXCEPT !.total_products = @ + 1]
        key == product.pid.v
        i == IndexOf(a.product_map, key)
        summed == [counted EXCEPT !.price_sum[key] = @ + PriceOr0(product.price)]
    IN  IF product.shape = "bad_category" THEN [a |-> counted, raised |-> TRUE]
        ELSE IF i # 0
        THEN LET frequency == a.product_map[i].frequency + 1
                 average == IF Truthy(product.price)
                            THEN running_average(a.product_map[i].average_price,
                                                 frequency, product.price.v)
                            ELSE a.product_map[i].average_price
             IN  [a |-> [summed EXCEPT !.product_map[i].frequency = frequency,
                                       !.product_map[i].average_price = average],
                  raised |-> FALSE]
        ELSE [a |-> [summed EXCEPT !.product_map =
                        Append(@, [product_id |-> key, frequency |-> 1,
                                   average_price |-> Rat(PriceOr0(product.price), 1)])],
              raised |-> FALSE]

\* "for product in products", left at the first exception
RECURSIVE process_products(_, _)
process_products(a, products) ==
    IF products = <<>> THEN a
    ELSE LET r == process_product(a, Head(products)) IN
         IF r.raised THEN r.a ELSE process_products(r.a, Tail(products))

\* min(20, max(1, args.orders)) and min(30, max(3, args.top))
Min(a, b) == IF a < b THEN a ELSE b
Max(a, b) == IF a > b THEN a ELSE b
clamp_orders(n) == Min(20, Max(1, n))
clamp_top(n) == Min(30, Max(3, n))

\* the stats left in the order of first encounter
encounter_order(stats) == stats

\* sorted(product_map.values(), key=frequency, reverse=True): stable
InsertByFrequency(sorted, x) ==
    LET k == Cardinality({i \in 1..Len(sorted) : sorted[i].frequency >= x.frequency}) IN
    SubSeq(sorted, 1, k) \o <<x>> \o SubSeq(sorted, k + 1, Len(sorted))

RECURSIVE sort_by_frequency(_)
sort_by_frequency(stats) ==
    IF stats = <<>> THEN <<>>
    ELSE InsertByFrequency(sort_by_frequency(SubSeq(stats, 1, Len(stats) - 1)),
                           stats[Len(stats)])

NoResult == [error |-> "none", analyzed_orders |-> 0, total_products |-> 0, top_items |-> <<>>]

\* reading this entry of an order's list raises an exception
RaisesAt(product) ==
    \/ product.shape = "null"
    \/ (product.shape = "bad_category" /\ Truthy(product.pid) /\ product.named)

\* reading an order's list raises somewhere
OrderFails(products) == \E i \in 1..Len(products) : RaisesAt(products[i])

\* the number of entries of an order's list that carry product id p and a name
LineItemsOf(products, p) ==
    Cardinality({i \in 1..Len(products) :
        /\ products[i].shape # "null"
        /\ products[i].pid = JInt(p)
        /\ products[i].named})

----------------------------------------------------------------------------
\* cmd_meals: the same scan, keeping the line items of a relevant category.
\* A string is the sequence of its characters; "ae", "oe", "ue", "ss" stand
\* for the umlauts and the sharp s.

MEAL_CATEGORY_MAPPINGS ==
    [breakfast |->
        <<<<"B", "r", "o", "t", " ", "&", " ", "B", "a", "c", "k", "w", "a", "r", "e", "n">>,
          <<"M", "i", "l", "c", "h">>,
          <<"M", "ue", "s", "l", "i">>,
          <<"A", "u", "f", "s", "t", "r", "i", "c", "h", "e">>,
          <<"M", "a", "r", "m", "e", "l", "a", "d", "e">>,
          <<"O", "b", "s", "t">>,
          <<"H", "o", "n", "i", "g">>,
          <<"B", "u", "t", "t", "e", "r">>,
          <<"E", "i", "e", "r">>,
          <<"K", "ae", "s", "e">>,
          <<"J", "o", "g", "h", "u", "r", "t">>>>,
     lunch |->
        <<<<"F", "l", "e", "i", "s", "c", "h">>,
          <<"G", "e", "f", "l", "ue", "g", "e", "l">>,
          <<"G", "e", "m", "ue", "s", "e">>,
          <<"B", "e", "i", "l", "a", "g", "e", "n">>,
          <<"N", "u", "d", "e", "l", "n">>,
          <<"R", "e", "i", "s">>,
          <<"S", "o", "ss", "e", "n">>,
          <<"S", "u", "p", "p", "e", "n">>,
          <<"H", "ue", "l", "s", "e", "n", "f", "r", "ue", "c", "h", "t", "e">>>>,
     dinner |->
        <<<<"F", "l", "e", "i", "s", "c", "h">>,
          <<"G", "e", "f", "l", "ue", "g", "e", "l">>,
          <<"F", "i", "s", "c", "h">>,
          <<"M", "e", "e", "r", "e", "s", "f", "r", "ue", "c", "h", "t", "e">>,
          <<"G", "e", "m", "ue", "s", "e">>,
          <<"B", "e", "i", "l", "a", "g", "e", "n">>,
          <<"N", "u", "d", "e", "l", "n">>,
          <<"R", "e", "i", "s">>,
          <<"K", "a", "r", "t", "o", "f", "f", "e", "l", "n">>,
          <<"S", "o", "ss", "e", "n">>>>,
     snack |->
        <<<<"S", "ue", "ss", "i", "g", "k", "e", "i", "t", "e", "n">>,
          <<"O", "b", "s", "t">>,
          <<"N", "ue", "s", "s", "e">>,
          <<"J", "o", "g", "h", "u", "r", "t">>,
          <<"K", "ae", "s", "e">>,
          <<"C", "h", "i", "p", "s">>,
          <<"R", "i", "e", "g", "e", "l">>,
          <<"K", "e", "k", "s", "e">>>>,
     baking |->
        <<<<"M", "e", "h", "l">>,
          <<"Z", "u", "c", "k", "e", "r">>,
          <<"B", "a", "c", "k", "z", "u", "t", "a", "t", "e", "n">>,
          <<"S", "c", "h", "o", "k", "o", "l", "a", "d", "e">>,
          <<"K", "a", "k", "a", "o">>,
          <<"N", "ue", "s", "s", "e">>,
          <<"E", "i", "e", "r">>,
          <<"B", "u", "t", "t", "e", "r">>,
          <<"H", "e", "f", "e">>>>,
     drinks |->
        <<<<"G", "e", "t", "r", "ae", "n", "k", "e">>,
          <<"K", "a", "f", "f", "e", "e">>,
          <<"T", "e", "e">>,
          <<"M", "i", "l", "c", "h">>,
          <<"S", "ae", "f", "t", "e">>,
          <<"W", "a", "s", "s", "e", "r">>,
          <<"B", "i", "e", "r">>,
          <<"W", "e", "i", "n">>>>,
     healthy |->
        <<<<"B", "i", "o">>,
          <<"G", "e", "s", "u", "n", "d">>,
          <<"G", "l", "u", "t", "e", "n", "f", "r", "e", "i">>,
          <<"V", "e", "g", "a", "n">>,
          <<"O", "b", "s", "t">>,
          <<"G", "e", "m", "ue", "s", "e">>,
          <<"N", "ue", "s", "s", "e">>,
          <<"H", "ue", "l", "s", "e", "n", "f", "r", "ue", "c", "h", "t", "e">>>>]

UpperCase ==
    <<"A", "B", "C", "D", "E", "F", "G", "H", "I", "J", "K", "L", "M", "N",
      "O", "P", "Q", "R", "S", "T", "U", "V", "W", "X", "Y", "Z", "AE",
      "OE", "UE">>
LowerCase ==
    <<"a", "b", "c", "d", "e", "f", "g", "h", "i", "j", "k", "l", "m", "n",
      "o", "p", "q", "r", "s", "t", "u", "v", "w", "x", "y", "z", "ae",
      "oe", "ue">>

\* str.lower()
lower_char(ch) ==
    LET hits == {i \in 1..Len(UpperCase) : UpperCase[i] = ch} IN
    IF hits = {} THEN ch ELSE LowerCase[CHOOSE i \in hits : TRUE]

lower(str) == [i \in 1..Len(str) |-> lower_char(str[i])]

\* needle in hay
Contains(hay, needle) ==
    \E i \in 0..(Len(hay) - Len(needle)) : SubSeq(hay, i + 1, i + Len(needle)) = needle

\* category names of the order details
Unkategorisiert == <<"U", "n", "k", "a", "t", "e", "g", "o", "r", "i", "s", "i", "e", "r", "t">>
Milchprodukte == <<"M", "i", "l", "c", "h", "p", "r", "o", "d", "u", "k", "t", "e">>
Lebensmittel == <<"L", "e", "b", "e", "n", "s", "m", "i", "t", "t", "e", "l">>
Obst == <<"O", "b", "s", "t">>
CHIPS == <<"C", "H", "I", "P", "S">>
Ei == <<"E", "i">>
Haushalt == <<"H", "a", "u", "s", "h", "a", "l", "t">>

\* one entry of a product's categories list
Category(level, name) == [level |-> level, named |-> TRUE, name |-> name]
UnnamedCategory(level) == [level |-> level, named |-> FALSE, name |-> <<>>]

InCategories(product, categories) == [product EXCEPT !.categories = categories]

\* the first entry of level 1, else the first entry; <<>> when there is none
main_category(categories) ==
    LET hits == {i \in 1..Len(categories) : categories[i].level = 1} IN
    IF hits # {} THEN <<categories[CHOOSE i \in hits : \A j \in hits : i <= j]>>
    ELSE IF categories # <<>> THEN <<categories[1]>>
    ELSE <<>>

\* main_category.get("name", default) if main_category else default
category_name(categories, default) ==
    LET main == main_category(categories) IN
    IF main # <<>> /\ main[1].named THEN main[1].name ELSE default

\* any(cat.lower() in category_name.lower() or category_name.lower() in cat.lower() ...)
any_category_matches(name, relevant_categories) ==
    \E i \in 1..Len(relevant_categories) :
        \/ Contains(lower(name), lower(relevant_categories[i]))
        \/ Contains(lower(relevant_categories[i]), lower(name))

\* the category names that occur, "" among them
CategoryNames ==
    {<<>>, Unkategorisiert, Milchprodukte, Lebensmittel, Obst, CHIPS, Ei, Haushalt}

\* any_category_matches, computed once for every meal type and name
Relevance ==
    [type \in DOMAIN MEAL_CATEGORY_MAPPINGS |->
        [name \in CategoryNames |->
            any_category_matches(name, MEAL_CATEGORY_MAPPINGS[type])]]

is_relevant(name, type) == Relevance[type][name]

\* the products lists the order details carry in the scans of cmd_meals
MealItemLists ==
    {<<>>,
     <<InCategories(Priced(1, 10), <<Category(1, Milchprodukte)>>)>>,
     <<Priced(2, 10)>>,
     <<InCategories(Priced(3, 10), <<Category(0, Lebensmittel), Category(1, Obst)>>)>>,
     <<InCategories(Priced(3, 10), <<Category(2, CHIPS)>>),
       InCategories(Priced(4, 10), <<Category(1, Haushalt)>>)>>,
     <<InCategories(Priced(4, 10), <<Category(1, Ei)>>)>>,
     <<InCategories(Priced(2, 10), <<UnnamedCategory(1)>>)>>,
     <<InCategories(Priced(1, 10), <<Category(1, Obst)>>), NoDict>>}

\* The body of "for product in products" in cmd_meals
process_meal_product(a, product) ==
    IF product.shape = "null" THEN [a |-> a, raised |-> TRUE]
    ELSE IF ~Truthy(product.pid) \/ ~product.named THEN [a |-> a, raised |-> FALSE]
    ELSE IF product.shape = "bad_category" THEN [a |-> a, raised |-> TRUE]
    ELSE IF ~is_relevant(category_name(product.categories, <<>>), a.meal_type)
    THEN [a |-> a, raised |-> FALSE]
    ELSE
    LET key == product.pid.v
        i == IndexOf(a.product_map, key)
        summed == [a EXCEPT !.price_sum[key] = @ + PriceOr0(product.price)]
    IN  IF i # 0
        THEN LET frequency == a.product_map[i].frequency + 1
                 average == IF Truthy(product.price)
                            THEN running_average(a.product_map[i].average_price,
                                                 frequency, product.price.v)
                            ELSE a.product_map[i].average_price
             IN  [a |-> [summed EXCEPT !.product_map[i].frequency = frequency,
                                       !.product_map[i].average_price = average],
                  raised |-> FALSE]
        ELSE [a |-> [summed EXCEPT !.product_map =
                        Append(@, [product_id |-> key, frequency |-> 1,
                                   average_price |-> Rat(PriceOr0(product.price), 1)])],
              raised |-> FALSE]

RECURSIVE process_meal_products(_, _)
process_meal_products(a, products) ==
    IF products = <<>> THEN a
    ELSE LET r == process_meal_product(a, Head(products)) IN
         IF r.raised THEN r.a ELSE process_meal_products(r.a, Tail(products))

\* the number of entries of an order's list that carry product id p and a
\* name and whose category, resolved as cmd_frequent resolves it, is relevant
RelevantLineItemsOf(products, p, type) ==
    Cardinality({i \in 1..Len(products) :
        /\ products[i].shape = "dict"
        /\ products[i].pid = JInt(p)
        /\ products[i].named
        /\ is_relevant(category_name(products[i].categories, Unkategorisiert), type)})

----------------------------------------------------------------------------
\* cmd_slots: the delivery slots, day by day

max_days_compact == 5
max_days_detailed == 10
fallback_slots == 12
available_percent == 50

Ausgebucht == "Ausgebucht"

\* One slot object.  since is JAbsent or the start time as a number whose
\* order is the order of the ISO strings (s.get("since", "") is "" when
\* absent, which sorts first); percent is JAbsent or a number.
Slot(id, type, since, capacity, percent, msg) ==
    [id |-> id, type |-> type, since |-> since, capacity |-> capacity,
     percent |-> percent, msg |-> msg]

\* one value of a day's "slots" object: a list of slots, or something else
Bucket(slots) == [is_list |-> TRUE, slots |-> slots]
NoListBucket == [is_list |-> FALSE, slots |-> <<>>]

\* One entry of availabilityDays: an object with a date and the slots by
\* hour (by_hour: whether "slots" is an object), or something else.
Day(date, buckets) == [is_dict |-> TRUE, date |-> date, by_hour |-> TRUE, buckets |-> buckets]
DayWithoutHours(date) == [is_dict |-> TRUE, date |-> date, by_hour |-> FALSE, buckets |-> <<>>]
NoDictDay == [is_dict |-> FALSE, date |-> "", by_hour |-> FALSE, buckets |-> <<>>]

\* one entry of the response: an object with availabilityDays, or something else
ResponseItem(days) == [is_dict |-> TRUE, days |-> days]
NoDictItem == [is_dict |-> FALSE, days |-> <<>>]

\* s.get("since", "")
since_key(slot) == IF slot.since = JAbsent THEN 0 ELSE slot.since.v

\* capacity_dto.get("totalFreeCapacityPercent", 0)
capacity_percent(slot) == IF slot.percent = JAbsent THEN 0 ELSE slot.percent.v

\* the first of the values of "slots" alone
first_bucket(buckets) ==
    IF buckets = <<>> THEN <<>>
    ELSE IF Head(buckets).is_list THEN Head(buckets).slots ELSE <<>>

\* day_slots.extend(hour_slots) for every list among the values of "slots"
RECURSIVE flatten_buckets(_)
flatten_buckets(buckets) ==
    IF buckets = <<>> THEN <<>>
    ELSE (IF Head(buckets).is_list THEN Head(buckets).slots ELSE <<>>)
            \o flatten_buckets(Tail(buckets))

\* the body of "for day in availability_days": the days appended to all_days
flatten_day(day) ==
    IF ~day.is_dict THEN <<>>
    ELSE LET day_slots == IF day.by_hour THEN flatten_buckets(day.buckets) ELSE <<>> IN
         IF day_slots # <<>> THEN <<[date |-> day.date, slots |-> day_slots]>> ELSE <<>>

RECURSIVE flatten_days(_)
flatten_days(days) ==
    IF days = <<>> THEN <<>> ELSE flatten_day(Head(days)) \o flatten_days(Tail(days))

\* "for response_item in raw_slots": all_days
RECURSIVE flatten_slots(_)
flatten_slots(raw) ==
    IF raw = <<>> THEN <<>>
    ELSE (IF Head(raw).is_dict THEN flatten_days(Head(raw).days) ELSE <<>>)
            \o flatten_slots(Tail(raw))

\* sorted(slots, key=lambda s: s.get("since", "")): stable, ascending
RECURSIVE InsertBySince(_, _)
InsertBySince(sorted, slot) ==
    IF sorted = <<>> THEN <<slot>>
    ELSE IF since_key(slot) < since_key(Head(sorted))
         THEN <<slot>> \o sorted
         ELSE <<Head(sorted)>> \o InsertBySince(Tail(sorted), slot)

\* the slots left in the order of the response
unsorted_slots(slots) == slots

RECURSIVE sorted_by_since(_)
sorted_by_since(slots) ==
    IF slots = <<>> THEN <<>>
    ELSE InsertBySince(sorted_by_since(SubSeq(slots, 1, Len(slots) - 1)), slots[Len(slots)])

IsVirtual(slot) == slot.type = "VIRTUAL"

\* display_slots
display_slots(slots, is_detailed) ==
    IF is_detailed THEN sorted_by_since(slots)
    ELSE LET virtual == SelectSeq(slots, IsVirtual) IN
         IF virtual # <<>> THEN virtual
         ELSE SubSeq(slots, 1, Min(fallback_slots, Len(slots)))

\* the status as the design states it: by message and percent alone
status_by_percent(slot) ==
    IF slot.msg = Ausgebucht \/ capacity_percent(slot) = 0 THEN "booked_out"
    ELSE IF capacity_percent(slot) >= available_percent THEN "available"
    ELSE IF capacity_percent(slot) > 0 THEN "limited"
    ELSE "booked_out"

\* the status printed for a slot
slot_status(slot) ==
    IF slot.msg = Ausgebucht \/ capacity_percent(slot) = 0 THEN "booked_out"
    ELSE IF slot.capacity = "GREEN" /\ capacity_percent(slot) >= available_percent
    THEN "available"
    ELSE IF slot.capacity = "GREEN" \/ capacity_percent(slot) > 0 THEN "limited"
    ELSE "booked_out"

\* what is printed for one day of all_days
show_day(day_info, is_detailed) ==
    LET listed == display_slots(day_info.slots, is_detailed) IN
    [date |-> day_info.date, slots |-> listed,
     status |-> [i \in 1..Len(listed) |-> slot_status(listed[i])]]

\* cmd_slots.  No output is modelled for the run that fails or prints JSON.
cmd_slots(s, is_detailed, as_json, resp, answer, over) ==
    LET none == [detailed |-> is_detailed, json_output |-> as_json, raw_slots |-> <<>>,
                 all_days |-> <<>>, shown_days |-> <<>>]
    IN
    IF ~is_logged_in(s)
    THEN [s |-> s, ret |-> NotLoggedIn("cmd_slots"), slots |-> none]
    ELSE
    LET r == get_delivery_slots(s, resp, over) IN
    IF r.ret.exc # "none" THEN [s |-> r.s, ret |-> r.ret, slots |-> none]
    ELSE
    LET raw == IF r.ret.body = "empty" THEN <<>> ELSE answer
        days == flatten_slots(raw)
        max_days == IF is_detailed THEN max_days_detailed ELSE max_days_compact
        printed == SubSeq(days, 1, Min(max_days, Len(days)))
    IN  IF as_json
        THEN [s |-> r.s, ret |-> r.ret, slots |-> [none EXCEPT !.raw_slots = raw]]
        ELSE [s |-> r.s, ret |-> r.ret,
              slots |-> [none EXCEPT !.raw_slots = raw, !.all_days = days,
                                     !.shown_days = [i \in 1..Len(printed) |->
                                                        show_day(printed[i], is_detailed)]]]

\* slots of the responses: hourly windows (VIRTUAL) and quarter-hour ones
Hourly(id, since, capacity, percent, msg) ==
    Slot(id, "VIRTUAL", JInt(since), capacity, JInt(percent), msg)
Quarter(id, since, capacity, percent, msg) ==
    Slot(id, "ON_TIME", JInt(since), capacity, JInt(percent), msg)

\* three hours with 2, 1 and 4 slots
BusyDay(date, base) ==
    Day(date,
        <<Bucket(<<Quarter(base + 1, 9, "GREEN", 80, ""), Hourly(base + 2, 8, "GREEN", 80, "")>>),
          Bucket(<<Hourly(base + 3, 12, "ORANGE", 80, "")>>),
          Bucket(<<Quarter(base + 4, 11, "GREEN", 30, ""),
                   Hourly(base + 5, 10, "RED", 0, Ausgebucht),
                   Quarter(base + 6, 10, "ORANGE", 30, ""),
                   Hourly(base + 7, 10, "GREEN", 50, Ausgebucht)>>)>>)

\* one hour of quarter-hour windows, one more than the fallback lists, latest first
LongDay(date) ==
    Day(date,
        <<Bucket([i \in 1..(fallback_slots + 1) |->
                    Quarter(100 + i, fallback_slots + 2 - i,
                            IF i % 2 = 0 THEN "GREEN" ELSE "RED", 50, "")])>>)

\* slots without a start time, a percent or a capacity
SparseDay(date) ==
    Day(date,
        <<NoListBucket,
          Bucket(<<Slot(201, "ON_TIME", JInt(7), "GREEN", JInt(-1), ""),
                   Slot(202, "ON_TIME", JAbsent, "GREEN", JAbsent, ""),
                   Slot(203, "ON_TIME", JInt(7), "", JInt(-1), "")>>)>>)

\* days without any slot
EmptyDay(date) == Day(date, <<Bucket(<<>>), NoListBucket>>)

\* what get_delivery_slots returns for a response with a body
SlotAnswers ==
    {<<>>,
     <<ResponseItem(<<BusyDay("mon", 0), BusyDay("tue", 10)>>)>>,
     <<ResponseItem(<<BusyDay("mon", 0), EmptyDay("tue"), LongDay("wed")>>)>>,
     <<NoDictItem, ResponseItem(<<NoDictDay, SparseDay("mon"), DayWithoutHours("tue")>>)>>,
     <<ResponseItem(<<LongDay("mon")>>), ResponseItem(<<SparseDay("tue")>>)>>,
     <<ResponseItem(<<BusyDay("mon", 0), LongDay("tue"), SparseDay("wed"),
                      BusyDay("thu", 10), LongDay("fri"), BusyDay("sat", 20)>>)>>}

----------------------------------------------------------------------------
\* The client as a state machine: one action per operation

\* __init__: empty fields, then _load_session
init_client(clk, f) ==
    load_session([cookies |-> EmptyDict, user_id |-> JNull, address_id |-> JNull,
                  last_request_time |-> 0, clock |-> clk, file |-> f, wire |-> <<>>])

InitRet == Result("init", "none", "ok", JNull, "none", EmptyObject, "unsent", "none")

\* how KnusprAPI() ends on the file f
init_ret(f) ==
    IF load_session_raises([file |-> f])
    THEN Result("init", "AttributeError", "AttributeError", JNull, "none", EmptyObject,
                "unsent", "none")
    ELSE InitRet

Install(s) ==
    /\ cookies = s.cookies
    /\ user_id = s.user_id
    /\ address_id = s.address_id
    /\ last_request_time = s.last_request_time
    /\ clock = s.clock
    /\ file = s.file
    /\ wire = s.wire

\* cmd_frequent has not run
ScanIdle ==
    /\ pc = "start"
    /\ orders_to_analyze = 0
    /\ top_items = 0
    /\ order_history = <<>>
    /\ next_order = 1
    /\ product_map = <<>>
    /\ processed_orders = 0
    /\ total_products = 0
    /\ result = NoResult
    /\ line_items = [p \in Products |-> 0]
    /\ price_sum = [p \in Products |-> 0]
    /\ failed_orders = 0
    /\ detail_requests = 0
    /\ meal_type = "none"
    /\ relevant_line_items = [p \in Products |-> 0]

\* no call has returned a JSON value
ValuesIdle ==
    /\ decoded_body = NoValue
    /\ returned_value = NoValue
    /\ set_cookie_headers = <<>>

\* cmd_slots has not run
SlotsIdle ==
    /\ detailed = FALSE
    /\ json_output = FALSE
    /\ raw_slots = <<>>
    /\ all_days = <<>>
    /\ shown_days = <<>>

Init ==
    /\ Install(init_client(min_request_interval, <<>>))
    /\ ret = InitRet
    /\ ScanIdle
    /\ SlotsIdle
    /\ ValuesIdle

\* the operation's outcome r becomes the next state
CommitWithin(r, horizon) ==
    /\ r.s.clock <= horizon
    /\ cookies' = r.s.cookies
    /\ user_id' = r.s.user_id
    /\ address_id' = r.s.address_id
    /\ last_request_time' = r.s.last_request_time
    /\ clock' = r.s.clock
    /\ file' = r.s.file
    /\ wire' = r.s.wire
    /\ ret' = r.ret
    /\ decoded_body' = IF "decoded" \in DOMAIN r THEN r.decoded ELSE NoValue
    /\ returned_value' = IF "returned" \in DOMAIN r THEN r.returned ELSE NoValue
    /\ set_cookie_headers' = IF "headers" \in DOMAIN r THEN r.headers ELSE <<>>
    /\ UNCHANGED scanVars
    /\ UNCHANGED slotVars

Commit(r) == CommitWithin(r, MaxTime)

Oversleeps == 0..MaxOversleep
Punctual == {0}

\* answers without the variety of Responses
PlainResponses ==
    {OkResp(<<>>, "json"), OkResp(<<Hdr("sid", "a")>>, "json"), HttpError(500, <<>>), UrlError}

\* time passes between two operations
Tick ==
    /\ clock < MaxTime
    /\ clock' = clock + 1
    /\ UNCHANGED <<cookies, user_id, address_id, last_request_time, file, wire, ret>>
    /\ UNCHANGED scanVars
    /\ UNCHANGED slotVars
    /\ UNCHANGED valueVars

\* the next command starts a new process: KnusprAPI()
NewClient == Commit([s |-> init_client(clock, file), ret |-> init_ret(file)])

\* Each action draws the answers of the network from RS, the decoded bodies
\* from BS and the oversleep from OS.
Login(RS, BS, OS) ==
    \E resp \in RS, over \in OS :
        \E js \in IF resp.kind = "ok" /\ resp.body = "json" THEN BS ELSE {EmptyObject} :
            Commit(login(Self, resp, js, over))

Logout(RS, OS) == \E resp \in RS, over \in OS : Commit(logout(Self, resp, over))

SearchProducts(RS, OS) == \E resp \in RS, over \in OS : Commit(search_products(Self, resp, over))
GetCart(RS, OS) == \E resp \in RS, over \in OS : Commit(get_cart(Self, resp, over))
AddToCart(RS, OS) == \E resp \in RS, over \in OS : Commit(add_to_cart(Self, resp, over))
RemoveFromCart(RS, OS) == \E resp \in RS, over \in OS : Commit(remove_from_cart(Self, resp, over))
UpdateCartQuantity(RS, OS) == \E resp \in RS, over \in OS : Commit(update_cart_quantity(Self, resp, over))
GetOrderHistory(RS, OS) == \E resp \in RS, over \in OS : Commit(get_order_history(Self, resp, over))
GetOrderDetail(RS, OS) == \E resp \in RS, over \in OS : Commit(get_order_detail(Self, resp, over))
GetDeliverySlots(RS, OS) == \E resp \in RS, over \in OS : Commit(get_delivery_slots(Self, resp, over))
GetPremiumInfo(RS, OS) == \E resp \in RS, over \in OS : Commit(get_premium_info(Self, resp, over))
GetReusableBagsInfo(RS, OS) == \E resp \in RS, over \in OS : Commit(get_reusable_bags_info(Self, resp, over))
GetAnnouncements(RS, OS) == \E resp \in RS, over \in OS : Commit(get_announcements(Self, resp, over))
ReserveSlot(RS, OS) == \E resp \in RS, over \in OS : Commit(reserve_slot(Self, resp, over))
CancelReservation(RS, OS) == \E resp \in RS, over \in OS : Commit(cancel_reservation(Self, resp, over))

GetCurrentReservation(RS, BS, OS) ==
    \E resp \in RS, over \in OS :
        \E shape \in IF resp.kind = "ok" /\ resp.body = "json" THEN BS ELSE {"null"} :
            Commit(get_current_reservation(Self, resp, shape, over))

AddFavorite(RS, OS) ==
    \E resp \in RS, flag \in BOOLEAN, over \in OS :
        Commit(add_favorite(Self, resp, flag, over))

RemoveFavorite(RS, OS) ==
    \E resp \in RS, flag \in BOOLEAN, over \in OS :
        Commit(remove_favorite(Self, resp, flag, over))

\* every probe search of one run is answered the same way
FavAnswers == {[i \in 1..(2 * Len(search_terms)) |-> p] : p \in FavPages}

\* the first probe search is answered, the second is not JSON
FavCutShort ==
    {[i \in 1..(2 * Len(search_terms)) |->
        [resp |-> OkResp(<<>>, IF i = 2 THEN "garbage" ELSE "json"), full |-> f]] :
        f \in BOOLEAN}

GetFavorites(PS, OS) == \E pages \in PS, over \in OS : Commit(get_favorites(Self, pages, over))

\* cmd_frequent runs in a process of its own, one step per order of the
\* listing.  c holds the command's local variables.
ScanSelf ==
    [pc |-> pc, orders_to_analyze |-> orders_to_analyze, top_items |-> top_items,
     order_history |-> order_history, next_order |-> next_order,
     product_map |-> product_map, processed_orders |-> processed_orders,
     total_products |-> total_products, result |-> result,
     line_items |-> line_items, price_sum |-> price_sum,
     failed_orders |-> failed_orders, detail_requests |-> detail_requests,
     meal_type |-> meal_type, relevant_line_items |-> relevant_line_items]

\* a start that scans a one-order listing when the list request fails
cmd_frequent_start_anyway(s, c, args_orders, args_top, resp, listing, over) ==
    LET api == init_client(s.clock, s.file)
        r == get_order_history(api, resp, over)
    IN  [s |-> r.s, ret |-> r.ret,
         scan |-> [c EXCEPT !.pc = "scan",
                            !.orders_to_analyze = clamp_orders(args_orders),
                            !.top_items = clamp_top(args_top),
                            !.order_history = IF listing = <<>> THEN <<1>> ELSE listing]]

\* cmd_frequent up to the for loop
cmd_frequent_start(s, c, args_orders, args_top, resp, listing, over) ==
    LET api == init_client(s.clock, s.file) IN
    IF ~is_logged_in(api)
    THEN [s |-> api, ret |-> InitRet,
          scan |-> [c EXCEPT !.pc = "done", !.result.error = "Nicht eingeloggt"]]
    ELSE
    LET r == get_order_history(api, resp, over)
        listed == IF resp.kind = "ok" /\ resp.body = "json" THEN listing ELSE <<>>
        clamped == [c EXCEPT !.orders_to_analyze = clamp_orders(args_orders),
                             !.top_items = clamp_top(args_top)]
    IN  [s |-> r.s, ret |-> r.ret,
         scan |-> IF r.ret.exc # "none"
                  THEN [clamped EXCEPT !.pc = "done", !.result.error = r.ret.exc]
                  ELSE IF listed = <<>>
                  THEN [clamped EXCEPT !.pc = "done",
                                       !.result.error = "Keine Bestellhistorie gefunden"]
                  ELSE [clamped EXCEPT !.pc = "scan", !.order_history = listed]]

\* one iteration of "for order in order_history", for an order with an id
cmd_frequent_order(s, c, resp, products, over) ==
    LET r == get_order_detail(s, resp, over)
        next == [c EXCEPT
                    !.next_order = @ + 1,
                    !.detail_requests = @ + Len(r.s.wire),
                    !.failed_orders =
                        IF r.ret.exc # "none" \/ (resp.body = "json" /\ OrderFails(products))
                        THEN @ + 1 ELSE @]
        counted == [next EXCEPT
                       !.processed_orders = @ + 1,
                       !.line_items = [p \in Products |-> @[p] + LineItemsOf(products, p)]]
    IN  [s |-> r.s, ret |-> r.ret,
         scan |-> IF r.ret.exc # "none" \/ resp.body # "json" THEN next
                  ELSE process_products(counted, products)]

\* cmd_frequent after the for loop
cmd_frequent_result(c) ==
    LET sorted_products == sort_by_frequency(c.product_map) IN
    [c EXCEPT !.pc = "done",
              !.result = [error |-> "none",
                          analyzed_orders |-> c.processed_orders,
                          total_products |-> c.total_products,
                          top_items |-> SubSeq(sorted_products, 1,
                                               Min(c.top_items, Len(sorted_products)))]]

CommitScan(r) ==
    /\ cookies' = r.s.cookies
    /\ user_id' = r.s.user_id
    /\ address_id' = r.s.address_id
    /\ last_request_time' = r.s.last_request_time
    /\ clock' = r.s.clock
    /\ file' = r.s.file
    /\ wire' = r.s.wire
    /\ ret' = r.ret
    /\ pc' = r.scan.pc
    /\ orders_to_analyze' = r.scan.orders_to_analyze
    /\ top_items' = r.scan.top_items
    /\ order_history' = r.scan.order_history
    /\ next_order' = r.scan.next_order
    /\ product_map' = r.scan.product_map
    /\ processed_orders' = r.scan.processed_orders
    /\ total_products' = r.scan.total_products
    /\ result' = r.scan.result
    /\ line_items' = r.scan.line_items
    /\ price_sum' = r.scan.price_sum
    /\ failed_orders' = r.scan.failed_orders
    /\ detail_requests' = r.scan.detail_requests
    /\ meal_type' = r.scan.meal_type
    /\ relevant_line_items' = r.scan.relevant_line_items
    /\ UNCHANGED slotVars
    /\ UNCHANGED valueVars

ArgOrders == {0, 1, 2}
ArgTops == {1, 3}

\* the answers to the requests of the scan
ScanResponses ==
    {OkResp(<<>>, "json"), OkResp(<<>>, "empty"), HttpError(500, <<>>), UrlError}

StartFrequent(AO, AT, HS) ==
    /\ pc = "start"
    /\ \E args_orders \in AO, args_top \in AT, resp \in ScanResponses :
        \E listing \in IF resp.kind = "ok" /\ resp.body = "json" THEN HS ELSE {<<>>} :
            CommitScan(cmd_frequent_start(Self, ScanSelf, args_orders, args_top,
                                          resp, listing, 0))

ScanOrder(IS) ==
    /\ pc = "scan"
    /\ next_order <= Len(order_history)
    /\ IF order_history[next_order] = 0
       THEN CommitScan([s |-> Self, ret |-> ret,
                        scan |-> [ScanSelf EXCEPT !.next_order = @ + 1]])
       ELSE \E resp \in ScanResponses :
            \E products \in IF resp.kind = "ok" /\ resp.body = "json"
                            THEN IS ELSE {<<>>} :
                CommitScan(cmd_frequent_order(Self, ScanSelf, resp, products, 0))

FinishFrequent ==
    /\ pc = "scan"
    /\ next_order > Len(order_history)
    /\ CommitScan([s |-> Self, ret |-> ret, scan |-> cmd_frequent_result(ScanSelf)])

\* cmd_meals up to the for loop
cmd_meals_start(s, c, type, args_orders, args_count, resp, listing, over) ==
    LET api == init_client(s.clock, s.file) IN
    IF type \notin DOMAIN MEAL_CATEGORY_MAPPINGS
    THEN [s |-> api, ret |-> InitRet,
          scan |-> [c EXCEPT !.pc = "meals_done",
                             !.result.error = "Ungueltiger Mahlzeittyp"]]
    ELSE IF ~is_logged_in(api)
    THEN [s |-> api, ret |-> InitRet,
          scan |-> [c EXCEPT !.pc = "meals_done", !.result.error = "Nicht eingeloggt"]]
    ELSE
    LET r == get_order_history(api, resp, over)
        listed == IF resp.kind = "ok" /\ resp.body = "json" THEN listing ELSE <<>>
        clamped == [c EXCEPT !.top_items = clamp_top(args_count),
                             !.orders_to_analyze = clamp_orders(args_orders),
                             !.meal_type = type]
    IN  [s |-> r.s, ret |-> r.ret,
         scan |-> IF r.ret.exc # "none"
                  THEN [clamped EXCEPT !.pc = "meals_done", !.result.error = r.ret.exc]
                  ELSE IF listed = <<>>
                  THEN [clamped EXCEPT !.pc = "meals_done",
                                       !.result.error = "Keine Bestellhistorie gefunden"]
                  ELSE [clamped EXCEPT !.pc = "meals_scan", !.order_history = listed]]

\* one iteration of "for order in order_history" in cmd_meals, for an order
\* with an id
cmd_meals_order(s, c, resp, products, over) ==
    LET r == get_order_detail(s, resp, over)
        next == [c EXCEPT
                    !.next_order = @ + 1,
                    !.detail_requests = @ + Len(r.s.wire),
                    !.failed_orders =
                        IF r.ret.exc # "none" \/ (resp.body = "json" /\ OrderFails(products))
                        THEN @ + 1 ELSE @]
        counted == [next EXCEPT
                       !.processed_orders = @ + 1,
                       !.line_items = [p \in Products |-> @[p] + LineItemsOf(products, p)],
                       !.relevant_line_items =
                           [p \in Products |->
                               @[p] + RelevantLineItemsOf(products, p, c.meal_type)]]
    IN  [s |-> r.s, ret |-> r.ret,
         scan |-> IF r.ret.exc # "none" \/ resp.body # "json" THEN next
                  ELSE process_meal_products(counted, products)]

\* cmd_meals after the for loop; total_products holds relevant_items and
\* top_items the suggestions
cmd_meals_result(c) ==
    LET sorted_products == sort_by_frequency(c.product_map) IN
    [c EXCEPT !.pc = "meals_done",
              !.result = [error |-> "none",
                          analyzed_orders |-> c.processed_orders,
                          total_products |-> Len(c.product_map),
                          top_items |-> SubSeq(sorted_products, 1,
                                               Min(c.top_items, Len(sorted_products)))]]

\* "brunch" is no meal type
MealTypeArgs == {"breakfast", "snack", "brunch"}

StartMeals(MT, AO, AC, HS) ==
    /\ pc = "start"
    /\ \E type \in MT, args_orders \in AO, args_count \in AC, resp \in ScanResponses :
        \E listing \in IF resp.kind = "ok" /\ resp.body = "json" THEN HS ELSE {<<>>} :
            CommitScan(cmd_meals_start(Self, ScanSelf, type, args_orders, args_count,
                                       resp, listing, 0))

ScanMealsOrder(IS) ==
    /\ pc = "meals_scan"
    /\ next_order <= Len(order_history)
    /\ IF order_history[next_order] = 0
       THEN CommitScan([s |-> Self, ret |-> ret,
                        scan |-> [ScanSelf EXCEPT !.next_order = @ + 1]])
       ELSE \E resp \in ScanResponses :
            \E products \in IF resp.kind = "ok" /\ resp.body = "json"
                            THEN IS ELSE {<<>>} :
                CommitScan(cmd_meals_order(Self, ScanSelf, resp, products, 0))

FinishMeals ==
    /\ pc = "meals_scan"
    /\ next_order > Len(order_history)
    /\ CommitScan([s |-> Self, ret |-> ret, scan |-> cmd_meals_result(ScanSelf)])

----------------------------------------------------------------------------
\* The session's life: processes start, log in, call the gateway, log out

Next ==
    \/ NewClient
    \/ Login(Responses, LoginBodies, Punctual)
    \/ Logout(Responses, Punctual)
    \/ GetCart(Responses, Punctual)

Spec == Init /\ [][Next]_vars

\* Every operation that needs a session
NextGuard ==
    \/ NewClient
    \/ Login(PlainResponses, FewLogins, Punctual)
    \/ Logout(PlainResponses, Punctual)
    \/ SearchProducts(PlainResponses, Punctual)
    \/ GetCart(PlainResponses \cup {HttpError(404, <<>>)}, Punctual)
    \/ AddToCart(PlainResponses, Punctual)
    \/ RemoveFromCart(PlainResponses, Punctual)
    \/ UpdateCartQuantity(PlainResponses, Punctual)
    \/ GetOrderHistory(PlainResponses, Punctual)
    \/ GetOrderDetail(PlainResponses, Punctual)
    \/ GetDeliverySlots(PlainResponses, Punctual)
    \/ GetPremiumInfo(PlainResponses, Punctual)
    \/ GetReusableBagsInfo(PlainResponses, Punctual)
    \/ GetAnnouncements(PlainResponses, Punctual)
    \/ GetCurrentReservation(PlainResponses \cup {HttpError(404, <<>>)}, {"data_object"},
                             Punctual)
    \/ ReserveSlot(PlainResponses, Punctual)
    \/ CancelReservation(PlainResponses, Punctual)
    \/ AddFavorite(PlainResponses, Punctual)
    \/ RemoveFavorite(PlainResponses, Punctual)
    \/ GetFavorites(FavAnswers, Punctual)

SpecGuard == Init /\ [][NextGuard]_vars

\* The rate limiter: time passes, sleeps overrun
NextRate ==
    \/ Tick
    \/ NewClient
    \/ Login({OkResp(<<Hdr("sid", "a")>>, "json")}, FewLogins, Oversleeps)
    \/ GetCart({OkResp(<<>>, "json"), HttpError(500, <<>>)}, Oversleeps)
    \/ GetFavorites(FavAnswers \cup FavCutShort, Oversleeps)

SpecRate == Init /\ [][NextRate]_vars

\* The reservation lookup
NextReservation ==
    \/ NewClient
    \/ Login(PlainResponses, FewLogins, Punctual)
    \/ Logout(PlainResponses, Punctual)
    \/ GetCurrentReservation(Responses, ReservationBodies, Punctual)

SpecReservation == Init /\ [][NextReservation]_vars

\* The reserve command
SlotIdArgs == {<<"1", "2">>, <<"x">>}

CmdSlotReserve(IS, JS, RS, BS, OS) ==
    \E slot_id \in IS, as_json \in JS, post \in RS, query \in RS, over \in OS :
        \E shape \in IF query.kind = "ok" /\ query.body = "json" THEN BS ELSE {"null"} :
            Commit(cmd_slot_reserve(Self, slot_id, as_json, post, query, shape, over))

NextReserve ==
    \/ Login(PlainResponses, FewLogins, Punctual)
    \/ Logout(PlainResponses, Punctual)
    \/ CmdSlotReserve(SlotIdArgs, BOOLEAN, Responses, ReservationBodies, Punctual)

SpecReserve == Init /\ [][NextReserve]_vars

\* The purchase-history aggregation, after a login
NextFreq ==
    \/ (pc = "start" /\ file = <<>>
            /\ Login({OkResp(<<Hdr("sid", "a")>>, "json")}, FewLogins, Punctual))
    \/ StartFrequent(ArgOrders, ArgTops, Histories)
    \/ ScanOrder(OrderItemLists)
    \/ FinishFrequent
    \/ StartMeals(MealTypeArgs, ArgOrders, ArgTops, Histories)
    \/ ScanMealsOrder(MealItemLists)
    \/ FinishMeals

SpecFreq == Init /\ [][NextFreq]_vars

\* orders of up to four products, for the ranking of cmd_frequent
TopItemLists ==
    {<<Priced(1, 10)>>,
     <<Priced(2, 10), Priced(2, 10)>>,
     <<Priced(3, 10), Priced(4, 10)>>,
     <<Priced(4, 10), Priced(4, 10)>>,
     <<Priced(1, 10), Priced(2, 10), Priced(3, 10), Priced(4, 10)>>,
     <<Priced(4, 10), Priced(3, 10), Priced(2, 10), Priced(1, 10)>>}

TopArgs == {0, 4, 31}

NextTop ==
    \/ (pc = "start" /\ file = <<>>
            /\ Login({OkResp(<<Hdr("sid", "a")>>, "json")}, FewLogins, Punctual))
    \/ StartFrequent({2}, TopArgs, Histories)
    \/ ScanOrder(TopItemLists)
    \/ FinishFrequent

SpecTop == Init /\ [][NextTop]_vars

\* cmd_slots as one step
CmdSlots(DS, JS, RS, AS, OS) ==
    \E is_detailed \in DS, as_json \in JS, resp \in RS, answer \in AS, over \in OS :
        LET r == cmd_slots(Self, is_detailed, as_json, resp,
                           IF resp.kind = "ok" /\ resp.body = "json" THEN answer ELSE <<>>,
                           over)
        IN  /\ r.s.clock <= MaxTime
            /\ cookies' = r.s.cookies
            /\ user_id' = r.s.user_id
            /\ address_id' = r.s.address_id
            /\ last_request_time' = r.s.last_request_time
            /\ clock' = r.s.clock
            /\ file' = r.s.file
            /\ wire' = r.s.wire
            /\ ret' = r.ret
            /\ detailed' = r.slots.detailed
            /\ json_output' = r.slots.json_output
            /\ raw_slots' = r.slots.raw_slots
            /\ all_days' = r.slots.all_days
            /\ shown_days' = r.slots.shown_days
            /\ UNCHANGED scanVars
            /\ UNCHANGED valueVars

NextSlots ==
    \/ Login({OkResp(<<Hdr("sid", "a")>>, "json")}, FewLogins, Punctual)
    \/ CmdSlots(BOOLEAN, BOOLEAN, ScanResponses, SlotAnswers, Punctual)

SpecSlots == Init /\ [][NextSlots]_vars

\* The session store on its own, from every session it may be asked to keep
StoreCookies ==
    {EmptyDict,
     [n \in {"sid"} |-> "a"],
     [n \in {"sid", "lang"} |-> IF n = "sid" THEN "b" ELSE "null"],
     [n \in {"cookies", "user_id"} |-> IF n = "cookies" THEN "" ELSE "7"]}

StoreIds == {JNull, JInt(0), JInt(7), JInt(42), JInt(-3)}

InitStore ==
    /\ cookies \in StoreCookies
    /\ user_id \in StoreIds
    /\ address_id \in StoreIds
    /\ last_request_time = 0
    /\ clock = min_request_interval
    /\ file = <<>>
    /\ wire = <<>>
    /\ ret = InitRet
    /\ ScanIdle
    /\ SlotsIdle
    /\ ValuesIdle

Done(op) == Result(op, "none", "ok", JNull, "none", EmptyObject, "unsent", "none")

SaveSession == Commit([s |-> save_session(Self), ret |-> Done("save_session")])
ClearSession == Commit([s |-> clear_session(Self), ret |-> Done("clear_session")])

NextStore ==
    \/ SaveSession
    \/ ClearSession
    \/ NewClient

SpecStore == InitStore /\ [][NextStore]_vars

\* the decoded bodies of the answers: lists, objects with and without a
\* data member, and scalars
JsonBodies ==
    {JList(<<>>),
     JList(<<JInt(1)>>),
     JObj(<<Member("data", JList(<<JInt(1)>>))>>),
     JObj(<<Member("data", JObj(<<Member("id", JInt(1))>>)), Member("status", JInt(200))>>),
     JObj(<<Member("data", JNull)>>),
     JObj(<<Member("id", JInt(1))>>),
     JObj(<<>>),
     JNull,
     JInt(0)}

\* the body that goes with the answer resp
BodiesOf(resp, BS) == IF resp.kind = "ok" /\ resp.body = "json" THEN BS ELSE {JObj(<<>>)}

GatewayCall(RS, BS, OS) ==
    \E resp \in RS, over \in OS : \E raw \in BodiesOf(resp, BS) :
        Commit(gateway_call(Self, resp, raw, over))

OrderHistoryCall(RS, BS, OS) ==
    \E resp \in RS, over \in OS : \E raw \in BodiesOf(resp, BS) :
        Commit(order_history_call(Self, resp, raw, over))

OrderDetailCall(RS, BS, OS) ==
    \E resp \in RS, over \in OS : \E raw \in BodiesOf(resp, BS) :
        Commit(order_detail_call(Self, resp, raw, over))

NextGateway ==
    \/ Login({OkResp(<<Hdr("sid", "a")>>, "json")}, FewLogins, Punctual)
    \/ GatewayCall(ScanResponses, JsonBodies, Punctual)
    \/ OrderHistoryCall(ScanResponses, JsonBodies, Punctual)
    \/ OrderDetailCall(ScanResponses, JsonBodies, Punctual)

SpecGateway == Init /\ [][NextGateway]_vars

\* what the session file may hold when something else than _save_session
\* wrote it
Quoted(str) == <<"\"", str, "\"">>

FileTexts ==
    {<<>>,
     <<"{">>,
     <<"{", "}", "}">>,
     <<"null">>,
     <<"4", "2">>,
     Quoted("x"),
     <<"{", "}">>,
     <<"{">> \o Quoted("cookies") \o <<":", "5", "}">>,
     <<"{">> \o Quoted("cookies") \o <<":">> \o Quoted("x") \o <<",">>
             \o Quoted("user_id") \o <<":", "7", "}">>,
     <<"{">> \o Quoted("user_id") \o <<":">> \o Quoted("x") \o <<"}">>,
     <<"{">> \o Quoted("address_id") \o <<":", "{", "}", "}">>,
     json_dump(JObj(<<Member("cookies", JObj(<<Member("sid", JStr("a"))>>)),
                      Member("user_id", JInt(42)),
                      Member("address_id", JNull)>>))}

\* the file is written from outside
WriteFile(TS) ==
    \E text \in TS :
        /\ file' = <<text>>
        /\ UNCHANGED <<cookies, user_id, address_id, last_request_time, clock, wire, ret>>
        /\ UNCHANGED scanVars
        /\ UNCHANGED slotVars
        /\ UNCHANGED valueVars

NextLoad ==
    \/ WriteFile(FileTexts)
    \/ NewClient
    \/ Tick

SpecLoad == Init /\ [][NextLoad]_vars

----------------------------------------------------------------------------
\* Properties

\* C1: in every reachable state the in-memory session is either
\* authenticated (cookies non-empty and user_id set) or entirely empty
\* (no cookies, no user_id, no address_id), never partially valid.
C1_SessionNeverPartial ==
    \/ (DOMAIN cookies # {} /\ user_id # JNull)
    \/ (DOMAIN cookies = {} /\ user_id = JNull /\ address_id = JNull)

\* the operations that need a session
GuardedOps ==
    {"search_products", "get_cart", "add_to_cart", "remove_from_cart",
     "update_cart_quantity", "get_order_history", "get_order_detail",
     "get_delivery_slots", "get_premium_info", "get_reusable_bags_info",
     "get_announcements", "get_current_reservation", "reserve_slot",
     "cancel_reservation", "get_favorites", "add_favorite", "remove_favorite"}

\* C2: an operation that needs a session, invoked while is_logged_in() is
\* false, raises the NotAuthenticated error, sends no request and leaves the
\* rate limiter's timestamp (and the clock: it does not sleep) alone.
C2_GuardedOpsFailFast ==
    [][(ret'.op \in GuardedOps /\ ~is_logged_in(Self))
        => /\ ret'.kind = "NotAuthenticated"
           /\ ret'.exc = "KnusprAPIError"
           /\ wire' = <<>>
           /\ last_request_time' = last_request_time
           /\ clock' = clock]_vars

\* a guarded operation was refused although the client holds a cookie
C2_Witness ==
    /\ ret.op \in GuardedOps
    /\ ret.kind = "NotAuthenticated"
    /\ wire = <<>>
    /\ ~is_logged_in(Self)
    /\ DOMAIN cookies # {}

\* C3: after logout(), however the logout POST ended, the in-memory session
\* is empty (no cookies, no user_id, no address_id) and the session file is
\* gone.
C3_LogoutClearsSession ==
    ret.op = "logout" =>
        /\ cookies = EmptyDict
        /\ user_id = JNull
        /\ address_id = JNull
        /\ file = <<>>

\* a logout whose POST carried the session's cookie and failed
C3_Witness ==
    /\ ret.op = "logout"
    /\ ret.http \in {"5xx", "unreachable"}
    /\ Len(wire) = 1
    /\ DOMAIN wire[1].cookie # {}
    /\ cookies = EmptyDict
    /\ file = <<>>

\* C4: logout() never raises: a connection failure, a non-2xx status and a
\* 2xx answer with an undecodable body are all swallowed.
C4_LogoutNeverRaises == ret.op = "logout" => ret.exc = "none"

\* the login response's status field is outside {200, 202, absent}
StatusRejected(js) == js.status \notin {JAbsent, JNull, JInt(200), JInt(202)}

\* the login response carries a user id
CarriesUserId(js) == js.data = "obj" /\ js.user = "obj" /\ Truthy(js.uid)

\* login() got a response it could decode
LoginAnswered == ret.op = "login" /\ ret.http = "2xx" /\ ret.exc # "JSONDecodeError"

\* C5: login() fails with AuthFailure exactly when the response's status is
\* outside {200, 202, absent} or the response carries no user id; such a
\* failure leaves user_id and address_id as they were and saves nothing.
C5_AuthFailureExactly ==
    /\ [](LoginAnswered =>
            ((ret.kind = "AuthFailure")
                <=> (StatusRejected(ret.arg) \/ ~CarriesUserId(ret.arg))))
    /\ [][(ret'.op = "login" /\ ret'.kind = "AuthFailure")
            => (user_id' = user_id /\ address_id' = address_id /\ file' = file)]_vars

\* the address id of the login response, None when it has no address
AddressIdOf(js) ==
    IF js.data = "obj" /\ js.address = "obj" THEN PyGet(js.aid) ELSE JNull

\* C6: a login response with status 200, 202 or none that carries a user id
\* makes login() succeed, set user_id to that id and address_id to the
\* response's address id (None when it has no address), and save the session.
C6_LoginSucceeds ==
    (LoginAnswered /\ ~StatusRejected(ret.arg) /\ CarriesUserId(ret.arg)) =>
        /\ ret.exc = "none"
        /\ user_id = ret.arg.uid
        /\ address_id = AddressIdOf(ret.arg)
        /\ file = <<json_dump(session_data(Self))>>

\* C7: on one client, two consecutive requests are sent at least the minimum
\* interval apart: within one operation, and from the last request of one
\* operation to the first of the next; the timestamp recorded is the send
\* time of the last request.
C7_MinimumInterval ==
    /\ [](\A i \in 1..(Len(wire) - 1) : wire[i + 1].t - wire[i].t >= min_request_interval)
    /\ [](wire # <<>> => last_request_time = wire[Len(wire)].t)
    /\ [][(wire' # <<>> /\ last_request_time # 0 /\ last_request_time' # last_request_time)
            => wire'[1].t - last_request_time >= min_request_interval]_vars

\* an operation slept between two of its requests, and overslept
C7_Witness ==
    /\ Len(wire) >= 2
    /\ wire[2].t - wire[1].t > min_request_interval
    /\ last_request_time = wire[Len(wire)].t

\* the reservation lookup ran on an authenticated session
ReservationLookedUp == ret.op = "get_current_reservation" /\ ret.kind # "NotAuthenticated"

ReturnedNone == ret.exc = "none" /\ ret.value = "None"

\* C8 as stated: current() returns NONE if and only if the request fails
\* with status 404; every other non-2xx status is raised; every 2xx answer
\* gives a result other than NONE.
C8_NoneIffNotFound ==
    ReservationLookedUp =>
        /\ ReturnedNone <=> ret.http = "404"
        /\ ret.http = "5xx" => ret.exc = "KnusprAPIError"

\* the 2xx answers that hold no reservation: an empty body, {}, null, or an
\* object whose data is null
EmptyAnswers == {"empty", "empty_object", "data_null", "null"}

\* C8: current() returns NONE exactly when the request fails with status 404
\* or a 2xx answer holds no reservation (empty body, {}, null, null data);
\* any other status and a connection failure are raised as the gateway's
\* error; a 2xx answer with any other decodable body gives a result other
\* than NONE.
C8_NoneWhenNotFoundOrEmpty ==
    ReservationLookedUp =>
        /\ ReturnedNone <=> (\/ ret.http = "404"
                             \/ (ret.http = "2xx" /\ ret.body \in EmptyAnswers))
        /\ ret.http \in {"5xx", "unreachable"}
            => (ret.exc = "KnusprAPIError" /\ ret.kind \in {"StatusError", "ConnectionError"})
        /\ (ret.http = "2xx" /\ ret.body \in {"data_object", "bare_object", "list"})
            => (ret.exc = "none" /\ ret.value # "None")

\* a 2xx answer with null data gave NONE
C8_Witness ==
    /\ ReservationLookedUp
    /\ ret.http = "2xx"
    /\ ret.body = "data_null"
    /\ ReturnedNone

\* the frequency of product p in the map, 0 when it has no stat
FrequencyOf(map, p) ==
    IF IndexOf(map, p) = 0 THEN 0 ELSE map[IndexOf(map, p)].frequency

\* C9: after a frequent() run every product's frequency is the number of
\* line items with its id (and a name) over all the orders counted in
\* analyzed_orders, and no product id has two stats.
C9_FrequencyCountsLineItems ==
    (pc = "done" /\ result.error = "none") =>
        /\ \A p \in Products : FrequencyOf(product_map, p) = line_items[p]
        /\ \A i, j \in 1..Len(product_map) :
                product_map[i].product_id = product_map[j].product_id => i = j

\* C10: a stat's average_price is the arithmetic mean of the prices of the
\* occurrences aggregated into it, a missing or zero price counting as 0:
\* average_price * frequency = the sum of the prices.
C10_AverageIsMean ==
    \A i \in 1..Len(product_map) :
        product_map[i].average_price.num * product_map[i].frequency
            = price_sum[product_map[i].product_id] * product_map[i].average_price.den

\* C11: an order whose detail fetch or parsing raises, at any point, is
\* skipped as a whole: it is not counted in analyzed_orders, it changes no
\* stat and not the line-item count, and the scan goes on to the next order.
C11_FailedOrderSkippedWhole ==
    /\ [](processed_orders + failed_orders <= next_order - 1)
    /\ [][failed_orders' # failed_orders
            => /\ processed_orders' = processed_orders
               /\ product_map' = product_map
               /\ total_products' = total_products
               /\ next_order' = next_order + 1
               /\ pc' = pc]_vars

\* the order-history list request failed with a connection or status error
HistoryRequestFailed ==
    ret.op = "get_order_history" /\ ret.kind \in {"ConnectionError", "StatusError"}

\* C12: when the order-history list request fails, the whole command fails
\* with that error: it ends there, having sent the list request only, no
\* order-detail request, and it returns no statistics.
C12_HistoryFailureFailsAll ==
    /\ [](HistoryRequestFailed =>
            /\ pc \in {"done", "meals_done"}
            /\ result.error = "KnusprAPIError"
            /\ result.top_items = <<>>
            /\ result.analyzed_orders = 0
            /\ product_map = <<>>
            /\ detail_requests = 0
            /\ Len(wire) = 1)
    /\ [][HistoryRequestFailed => UNCHANGED vars]_vars

\* cmd_meals ended on a connection failure of the list request
C12_Witness ==
    /\ HistoryRequestFailed
    /\ ret.kind = "ConnectionError"
    /\ pc = "meals_done"
    /\ result.error = "KnusprAPIError"
    /\ detail_requests = 0

\* C13: one run sends at most orders_to_analyze (the order window clamped to
\* [1, 20]) order-detail requests, however many orders the listing holds.
C13_DetailRequestsBounded ==
    (pc # "start" /\ orders_to_analyze > 0) => detail_requests <= orders_to_analyze

\* the place of a returned stat in the map, i.e. in the order of first encounter
EncounterOf(stat) == IndexOf(product_map, stat.product_id)

\* C14: the list frequent() returns holds stats of the map, sorted by
\* frequency descending with ties in first-encounter order, truncated to
\* top clamped to [3, 30]: it has min(clamp(top), number of products)
\* entries and no omitted product is more frequent than a returned one.
C14_TopItemsSortedAndTruncated ==
    /\ \A k \in 0..32 : clamp_top(k) = (IF k < 3 THEN 3 ELSE IF k > 30 THEN 30 ELSE k)
    /\ (pc = "done" /\ result.error = "none") =>
        LET out == result.top_items IN
        /\ top_items \in {clamp_top(k) : k \in TopArgs}
        /\ Len(out) = Min(top_items, Len(product_map))
        /\ \A i \in 1..Len(out) :
                EncounterOf(out[i]) # 0 /\ out[i] = product_map[EncounterOf(out[i])]
        /\ \A i, j \in 1..Len(out) :
                i < j => \/ out[i].frequency > out[j].frequency
                         \/ /\ out[i].frequency = out[j].frequency
                            /\ EncounterOf(out[i]) < EncounterOf(out[j])
        /\ \A k \in 1..Len(product_map) :
                (\A i \in 1..Len(out) : out[i] # product_map[k])
                    => \A i \in 1..Len(out) :
                            \/ product_map[k].frequency < out[i].frequency
                            \/ /\ product_map[k].frequency = out[i].frequency
                               /\ EncounterOf(out[i]) < k

\* four products ranked to three: the first returned is not the first
\* encountered, two returned stats tie, and the omitted one ties with a
\* returned one
C14_Witness ==
    /\ pc = "done"
    /\ result.error = "none"
    /\ Len(product_map) = 4
    /\ Len(result.top_items) = 3
    /\ result.top_items[1] # product_map[1]
    /\ \E i \in 1..2 : result.top_items[i].frequency = result.top_items[i + 1].frequency
    /\ \E k \in 1..4 : /\ \A i \in 1..3 : result.top_items[i] # product_map[k]
                       /\ product_map[k].frequency = result.top_items[3].frequency

\* C15: after a meal_suggestions() run in which no order failed, a product's
\* frequency is the number of its line items whose category name, resolved
\* as frequent() resolves it (level 1 first, else the first entry, else
\* "Unkategorisiert"), contains or is contained by a keyword of the meal
\* type, case-insensitively: an item without a category entry is not
\* included for lacking one.
C15_IncludedIffCategoryMatches ==
    (pc = "meals_done" /\ result.error = "none" /\ failed_orders = 0) =>
        \A p \in Products : FrequencyOf(product_map, p) = relevant_line_items[p]

\* the day objects of the upstream response, in its order
RECURSIVE UpstreamDays(_)
UpstreamDays(raw) ==
    IF raw = <<>> THEN <<>>
    ELSE (IF Head(raw).is_dict THEN Head(raw).days ELSE <<>>) \o UpstreamDays(Tail(raw))

\* the sum of the lengths of the hour-bucket lists of a day
RECURSIVE SumOfBuckets(_)
SumOfBuckets(buckets) ==
    IF buckets = <<>> THEN 0
    ELSE (IF Head(buckets).is_list THEN Len(Head(buckets).slots) ELSE 0)
            + SumOfBuckets(Tail(buckets))

HasSlots(day) == day.is_dict /\ day.by_hour /\ SumOfBuckets(day.buckets) > 0

\* cmd_slots has listed the slots of a response
SlotsListed ==
    ret.op = "get_delivery_slots" /\ ret.exc = "none" /\ ~json_output /\ raw_slots # <<>>

\* C16 as stated: every upstream day yields one SlotDay, whose slots are as
\* many as the entries of the day's hour buckets together.
C16_EveryDayYieldsSlotDay ==
    LET days == UpstreamDays(raw_slots) IN
    SlotsListed =>
    /\ Len(all_days) = Len(days)
    /\ \A i \in 1..Len(all_days) :
            /\ days[i].is_dict
            /\ all_days[i].date = days[i].date
            /\ Len(all_days[i].slots) = SumOfBuckets(days[i].buckets)

\* C16, amended: every upstream day with at least one slot entry yields one
\* SlotDay, in upstream order, whose slots are as many as the entries of the
\* day's hour buckets together; a day without any slot entry yields none.
C16_DaysWithSlotsYieldSlotDay ==
    LET days == SelectSeq(UpstreamDays(raw_slots), HasSlots) IN
    SlotsListed =>
    /\ Len(all_days) = Len(days)
    /\ \A i \in 1..Len(all_days) :
            /\ all_days[i].date = days[i].date
            /\ Len(all_days[i].slots) = SumOfBuckets(days[i].buckets)
            /\ Len(all_days[i].slots) > 0

\* two days of three hours with 2, 1 and 4 slots: 7 slots each
C16_Witness ==
    /\ SlotsListed
    /\ Len(UpstreamDays(raw_slots)) = 2
    /\ \A i \in 1..2 :
            /\ Len(UpstreamDays(raw_slots)[i].buckets) = 3
            /\ Len(UpstreamDays(raw_slots)[i].buckets[1].slots) = 2
            /\ Len(UpstreamDays(raw_slots)[i].buckets[2].slots) = 1
            /\ Len(UpstreamDays(raw_slots)[i].buckets[3].slots) = 4
    /\ Len(all_days) = 2
    /\ Len(all_days[1].slots) = 7
    /\ Len(all_days[2].slots) = 7

\* how often slot occurs in slots
Occurrences(slots, slot) == Cardinality({i \in 1..Len(slots) : slots[i] = slot})

\* C17: the detailed listing of a day is a permutation of the day's
\* flattened slots in ascending order of start time; the compact listing
\* holds the day's VIRTUAL slots and nothing else or, when the day has no
\* VIRTUAL slot, exactly the first 12 flattened slots (all if fewer).
C17_ListingOfDay ==
    \A d \in 1..Len(shown_days) :
        LET slots == all_days[d].slots
            listed == shown_days[d].slots
        IN
        /\ shown_days[d].date = all_days[d].date
        /\ detailed =>
            /\ Len(listed) = Len(slots)
            /\ \A i \in 1..Len(slots) :
                    Occurrences(listed, slots[i]) = Occurrences(slots, slots[i])
            /\ \A i, j \in 1..Len(listed) :
                    i < j => since_key(listed[i]) <= since_key(listed[j])
        /\ (~detailed /\ \E i \in 1..Len(slots) : slots[i].type = "VIRTUAL") =>
            /\ \A i \in 1..Len(listed) : listed[i].type = "VIRTUAL"
            /\ \A i \in 1..Len(slots) :
                    slots[i].type = "VIRTUAL"
                        => Occurrences(listed, slots[i]) = Occurrences(slots, slots[i])
        /\ (~detailed /\ \A i \in 1..Len(slots) : slots[i].type # "VIRTUAL") =>
            /\ Len(listed) = IF Len(slots) < 12 THEN Len(slots) ELSE 12
            /\ \A i \in 1..Len(listed) : listed[i] = slots[i]

\* a compact listing with a day whose VIRTUAL slots are listed and the
\* others left out, and a day of 13 slots, none VIRTUAL, of which the
\* first 12 are listed
C17_Witness ==
    /\ SlotsListed
    /\ ~detailed
    /\ \E d \in 1..Len(shown_days) :
            /\ Len(shown_days[d].slots) = 4
            /\ Len(all_days[d].slots) = 7
            /\ \A i \in 1..4 : shown_days[d].slots[i].type = "VIRTUAL"
    /\ \E d \in 1..Len(shown_days) :
            /\ Len(all_days[d].slots) = 13
            /\ Len(shown_days[d].slots) = 12
            /\ \A i \in 1..13 : all_days[d].slots[i].type # "VIRTUAL"

\* the slots listed with the status printed for each
ListedSlots ==
    UNION {{[slot |-> shown_days[d].slots[i], status |-> shown_days[d].status[i]] :
                i \in 1..Len(shown_days[d].slots)} : d \in 1..Len(shown_days)}

BookedOutByMessage(slot) == slot.msg = "Ausgebucht" \/ capacity_percent(slot) = 0

\* C18 as stated: the status follows from the capacity message and the
\* percent alone: booked out for the sentinel message or percent 0, else
\* available from 50 percent, limited above 0, else booked out.
C18_StatusByMessageAndPercent ==
    \A l \in ListedSlots :
        l.status = IF BookedOutByMessage(l.slot) THEN "booked_out"
                   ELSE IF capacity_percent(l.slot) >= 50 THEN "available"
                   ELSE IF capacity_percent(l.slot) > 0 THEN "limited"
                   ELSE "booked_out"

\* C18, amended: the status follows from the capacity message, the percent
\* and the capacity tier: booked out for the sentinel message or percent 0;
\* else available exactly when the tier is GREEN and the percent is 50 or
\* more, limited when the tier is GREEN or the percent is above 0, and
\* booked out otherwise.
C18_StatusByMessagePercentAndTier ==
    \A l \in ListedSlots :
        LET green == l.slot.capacity = "GREEN"
            percent == capacity_percent(l.slot)
        IN
        /\ l.status \in {"booked_out", "available", "limited"}
        /\ BookedOutByMessage(l.slot) => l.status = "booked_out"
        /\ ~BookedOutByMessage(l.slot) =>
            /\ l.status = "available" <=> (green /\ percent >= 50)
            /\ l.status = "limited" <=> ((green /\ percent < 50) \/ (~green /\ percent > 0))
            /\ l.status = "booked_out" <=> (~green /\ percent < 0)

\* a listed slot of 80 percent without the sentinel message whose tier is
\* not GREEN is printed as limited
C18_Witness ==
    \E l \in ListedSlots :
        /\ l.slot.msg # "Ausgebucht"
        /\ capacity_percent(l.slot) >= 50
        /\ l.slot.capacity # "GREEN"
        /\ l.status = "limited"

\* C19: a get_delivery_slots call made while user_id or address_id is unset
\* ends at once with the missing-address error (or the not-logged-in one):
\* no request is sent, no time is spent and the session is left as it was.
\* A slot request is sent only when both ids are set.
C19_SlotsNeedAddressContext ==
    [][ret'.op = "get_delivery_slots" =>
        /\ (~Truthy(user_id) \/ ~Truthy(address_id)) =>
                /\ ret'.exc = "KnusprAPIError"
                /\ ret'.kind \in {"MissingAddressContext", "NotAuthenticated"}
                /\ ret'.http = "unsent"
                /\ wire' = <<>>
                /\ UNCHANGED <<cookies, user_id, address_id, last_request_time, clock, file>>
        /\ wire' # <<>> =>
                /\ Truthy(user_id) /\ Truthy(address_id)
                /\ Len(wire') = 1]_vars

\* logged in without an address: the call ended with the missing-address
\* error and nothing was sent
C19_Witness ==
    /\ ret.op = "get_delivery_slots"
    /\ ret.kind = "MissingAddressContext"
    /\ DOMAIN cookies # {}
    /\ Truthy(user_id)
    /\ ~Truthy(address_id)
    /\ wire = <<>>

\* C20: a fresh client that loads what save wrote holds the session that
\* was saved: the same cookies, user_id and address_id; a fresh client
\* started after clear holds the empty session.
C20_SaveThenLoadIsIdentity ==
    [][/\ (ret.op = "save_session" /\ ret'.op = "init") =>
            /\ file # <<>>
            /\ cookies' = cookies
            /\ user_id' = user_id
            /\ address_id' = address_id
       /\ (ret.op = "clear_session" /\ ret'.op = "init") =>
            /\ file = <<>>
            /\ cookies' = EmptyDict
            /\ user_id' = JNull
            /\ address_id' = JNull]_vars

\* a fresh client has loaded a saved session of two cookies, a two-digit
\* user_id and no address_id
C20_Witness ==
    /\ ret.op = "init"
    /\ file # <<>>
    /\ Cardinality(DOMAIN cookies) = 2
    /\ user_id = JInt(42)
    /\ address_id = JNull

\* the file's text is a session as _save_session writes one: an object
\* whose cookies are an object of strings and whose ids are integers or null
WellFormedSession(text) ==
    LET data == json_load(text)
        jar == dict_get(data.value, "cookies", JObj(<<>>))
    IN  /\ data.ok
        /\ data.value.t = "obj"
        /\ jar.t = "obj"
        /\ \A i \in 1..Len(jar.v) : jar.v[i].v.t = "str"
        /\ dict_get(data.value, "user_id", JNull).t \in {"int", "null"}
        /\ dict_get(data.value, "address_id", JNull).t \in {"int", "null"}

\* C21: a client started on a missing session file, or on one whose content
\* is malformed (not JSON, JSON that is not an object, an object whose
\* fields have the wrong shape), starts without an exception and holds the
\* empty session.
C21_LoadNeverRaises ==
    [][(ret'.op = "init" /\ UNCHANGED <<clock, file>>
            /\ (file = <<>> \/ ~WellFormedSession(file[1]))) =>
        /\ ret'.exc = "none"
        /\ cookies' = EmptyDict
        /\ user_id' = JNull
        /\ address_id' = JNull]_vars

\* the normalized value of a decoded body: a list as it is, the data member
\* of an object that has one, any other value as it is
Normalized(raw) ==
    IF raw.t = "obj" /\ has_data(raw) THEN dict_get(raw, "data", JNull) ELSE raw

\* a gateway call, alone or inside get_order_history or get_order_detail,
\* was answered with 2xx and returned
GatewayAnswered ==
    /\ ret.op \in {"make_request", "get_order_history", "get_order_detail"}
    /\ ret.http = "2xx"
    /\ ret.exc = "none"
    /\ decoded_body # NoValue

\* C22: for every 2xx answer the gateway returns the normalized value: the
\* list itself, the data member of an object that has one, the object
\* otherwise, and the empty object for an empty body.
C22_GatewayNormalizes ==
    GatewayAnswered =>
        returned_value = IF ret.body = "empty" THEN JObj(<<>>) ELSE Normalized(decoded_body)

\* The favourites probes: every mix of full and short pages for the eight
\* probe searches a run can send, and full pages for any search after them
MaxProbeTime == 18
MaxProbes == 10

ProbeAnswers ==
    {[i \in 1..MaxProbes |->
        [resp |-> OkResp(<<>>, "json"), full |-> (i > 8 \/ i \in full_pages)]] :
        full_pages \in SUBSET (1..8)}
    \cup {[i \in 1..MaxProbes |-> p] : p \in FavPages}

GetFavoritesWithin(PS, OS, horizon) ==
    \E pages \in PS, over \in OS : CommitWithin(get_favorites(Self, pages, over), horizon)

NextFavorites ==
    \/ Login({OkResp(<<Hdr("sid", "a")>>, "json")}, FewLogins, Punctual)
    \/ GetFavoritesWithin(ProbeAnswers, Punctual, MaxProbeTime)

SpecFavorites == Init /\ [][NextFavorites]_vars

\* The cookie jar: gateway calls whose answers carry Set-Cookie headers of
\* every form
CookieHeaders ==
    {Hdr("sid", "a"),
     <<"sid", "=", "b", ";", " ", "Path", "=", "/", ";", " ", "HttpOnly">>,
     <<" ", "lang", " ", "=", " ", "de", " ", ";", "Secure">>,
     <<"tok", "=", "x", "=", "y">>,
     <<"sid", "=">>,
     <<"flag", ";", " ", "Path", "=", "/">>}

CookieResponses ==
    {OkResp(hs, "json") : hs \in SeqsUpTo(CookieHeaders, 2)}
    \cup {OkResp(<<Hdr("sid", "b")>>, "garbage"), OkResp(<<>>, "empty")}
    \cup {HttpError(c, hs) : c \in {404, 500}, hs \in {<<>>, <<Hdr("sid", "c")>>}}
    \cup {UrlError}

NextCookies ==
    \/ Login({OkResp(<<Hdr("sid", "a")>>, "json")}, FewLogins, Punctual)
    \/ GatewayCall(CookieResponses, {JObj(<<>>)}, Punctual)
    \/ Logout({OkResp(<<>>, "json")}, Punctual)

SpecCookies == Init /\ [][NextCookies]_vars

----------------------------------------------------------------------------
\* C23

\* the operation that just returned sent a request that was answered by an
\* error status or not at all
RequestFailed == ret.http \in {"404", "5xx", "unreachable"}

Propagated == ret.exc = "KnusprAPIError" /\ ret.kind \in {"ConnectionError", "StatusError"}

SwallowsByContract ==
    \/ ret.op \in {"init", "logout"}
    \/ (ret.op = "get_current_reservation" /\ ret.http = "404")

\* C23, as stated: apart from logout and the reservation lookup's 404, an
\* operation whose request fails raises the gateway's error to its caller,
\* get_favorites with a failing probe search included.
C23_RequestErrorsPropagate ==
    (RequestFailed /\ ~SwallowsByContract) => Propagated

\* C23, amended: the probe searches of get_favorites are one more exception;
\* a failing probe ends the paging of its term and get_favorites returns the
\* list collected so far.  Every other operation raises the gateway's error.
C23_RequestErrorsPropagateExceptProbes ==
    /\ (RequestFailed /\ ~SwallowsByContract /\ ret.op # "get_favorites") => Propagated
    /\ (RequestFailed /\ ret.op = "get_favorites") => (ret.exc = "none" /\ ret.value = "list")

C23_Witness ==
    /\ ret.op = "get_favorites"
    /\ ret.http = "5xx"
    /\ ret.exc = "none"
    /\ Len(wire) >= 2

----------------------------------------------------------------------------
\* C24

\* C24: the session file gets a new content only in a step of a login that
\* returns successfully, and then it holds the session as it is in memory;
\* it is removed only in a step of logout.  Every other step (a request whose
\* Set-Cookie headers change the cookies in memory, a failed login, the
\* construction of a client) leaves the file as it is.
C24_FileWrittenByLoginRemovedByLogout ==
    [][/\ (file' # file /\ file' # <<>>) =>
            /\ ret'.op = "login"
            /\ ret'.exc = "none"
            /\ file' = <<json_dump(session_data(Self'))>>
       /\ (file' # file /\ file' = <<>>) => ret'.op = "logout"]_vars

\* a request has changed the cookies in memory and the file still holds the
\* session that the login saved
C24_Witness ==
    /\ ret.op = "get_cart"
    /\ ret.http = "2xx"
    /\ file # <<>>
    /\ file # <<json_dump(session_data(Self))>>
    /\ user_id # JNull

----------------------------------------------------------------------------
\* C25

ReserveRan == ret.op = "cmd_slot_reserve"

PostFailed == ReserveRan /\ ret.http \in {"404", "5xx", "unreachable"}

----------------------------------------------------------------------------
\* C26

\* the position of the first token tok in text, 0 if there is none
FirstIndex(text, tok) ==
    IF \E i \in 1..Len(text) : text[i] = tok
    THEN CHOOSE i \in 1..Len(text) : text[i] = tok /\ \A j \in 1..(i - 1) : text[j] # tok
    ELSE 0

\* text without the blanks around it
Trimmed(text) ==
    LET inked == {i \in 1..Len(text) : text[i] # " "} IN
    IF inked = {} THEN <<>>
    ELSE SubSeq(text, CHOOSE i \in inked : \A j \in inked : i <= j,
                      CHOOSE i \in inked : \A j \in inked : i >= j)

\* the part of a Set-Cookie header before its first ";"
PairText(h) ==
    LET semi == FirstIndex(h, ";") IN Trimmed(IF semi = 0 THEN h ELSE SubSeq(h, 1, semi - 1))

HasPair(h) == FirstIndex(PairText(h), "=") # 0
NameTokens(h) == Trimmed(SubSeq(PairText(h), 1, FirstIndex(PairText(h), "=") - 1))
ValueTokens(h) ==
    Trimmed(SubSeq(PairText(h), FirstIndex(PairText(h), "=") + 1, Len(PairText(h))))

\* the string of at most three tokens
Glued(text) ==
    CASE Len(text) = 0 -> ""
      [] Len(text) = 1 -> text[1]
      [] Len(text) = 2 -> text[1] \o text[2]
      [] OTHER -> text[1] \o text[2] \o text[3]

\* the last header of hs that sets name n, 0 if none does
LastSetting(hs, n) ==
    LET setting == {i \in 1..Len(hs) : HasPair(hs[i]) /\ Glued(NameTokens(hs[i])) = n} IN
    IF setting = {} THEN 0 ELSE CHOOSE i \in setting : \A j \in setting : i >= j

\* old merged with the headers hs: last write wins per name, the rest is kept
Merged(old, hs) ==
    LET set_names == {Glued(NameTokens(hs[i])) : i \in {j \in 1..Len(hs) : HasPair(hs[j])}} IN
    [n \in (DOMAIN old) \cup set_names |->
        IF LastSetting(hs, n) # 0 THEN Glued(ValueTokens(hs[LastSetting(hs, n)])) ELSE old[n]]

\* the name=value pairs a Cookie header carries, read at its "; " separators
RECURSIVE CookiePairs(_)
CookiePairs(header) ==
    IF header = <<>> THEN {}
    ELSE LET semi == FirstIndex(header, ";")
             pair == IF semi = 0 THEN header ELSE SubSeq(header, 1, semi - 1)
             rest == IF semi = 0 THEN <<>> ELSE SubSeq(header, semi + 2, Len(header))
         IN  {<<pair[1], Glued(SubSeq(pair, 3, Len(pair)))>>} \cup CookiePairs(rest)

\* C26: a gateway call answered 2xx leaves the cookies merged with the
\* answer's Set-Cookie headers (name and value before the first ";", last
\* write wins, other cookies kept; a header without "=" there sets nothing),
\* and the request it sent carried exactly the cookies held before it, with
\* no Cookie header if there were none.
C26_CookiesMergedAndReplayed ==
    [][(ret'.op = "make_request" /\ ret'.http = "2xx") =>
        /\ cookies' = Merged(cookies, set_cookie_headers')
        /\ Len(wire') = 1
        /\ (wire'[1].header = <<>>) <=> (cookies = EmptyDict)
        /\ CookiePairs(wire'[1].header) = {<<n, cookies[n]>> : n \in DOMAIN cookies}]_vars

\* two headers of one answer set the same name and the last one won, an
\* older cookie was kept, and the request carried the cookies held before
C26_Witness ==
    /\ ret.op = "make_request"
    /\ ret.http = "2xx"
    /\ Len(set_cookie_headers) = 2
    /\ LastSetting(set_cookie_headers, "sid") = 2
    /\ HasPair(set_cookie_headers[1]) /\ Glued(NameTokens(set_cookie_headers[1])) = "sid"
    /\ cookies["sid"] # Glued(ValueTokens(set_cookie_headers[1]))
    /\ "lang" \in DOMAIN cookies
    /\ Len(wire) = 1
    /\ FirstIndex(wire[1].header, ";") # 0

----------------------------------------------------------------------------
\* C27

ProbesOf(term) == {i \in 1..Len(wire) : wire[i].term = term}

----------------------------------------------------------------------------
\* C28

\* C28: right after a login that returned, the session is authenticated:
\* is_logged_in() holds, whatever cookies the answer carried.
C28_AuthenticatedAfterLogin ==
    (ret.op = "login" /\ ret.exc = "none") => is_logged_in(Self)

----------------------------------------------------------------------------
\* C29

GatewayFailed == ret.op = "make_request" /\ ret.kind \in {"StatusError", "ConnectionError"}

\* C29: a gateway call that ends in a StatusError or a ConnectionError
\* leaves cookies, user id and address id (and the session file) as they
\* were, also if the error answer carried Set-Cookie headers; the limiter's
\* timestamp is the time of the request.
C29_FailedCallKeepsSession ==
    [][GatewayFailed' =>
        /\ cookies' = cookies
        /\ user_id' = user_id
        /\ address_id' = address_id
        /\ file' = file
        /\ Len(wire') = 1
        /\ last_request_time' = wire'[1].t]_vars

\* an error answer with a Set-Cookie header came to a client that holds a
\* session, and the cookie was not taken
C29_Witness ==
    /\ GatewayFailed
    /\ ret.kind = "StatusError"
    /\ set_cookie_headers = <<Hdr("sid", "c")>>
    /\ user_id # JNull
    /\ "sid" \in DOMAIN cookies
    /\ cookies["sid"] # "c"
    /\ last_request_time > 0

----------------------------------------------------------------------------
\* C30

RECURSIVE SumOfFrequencies(_)
SumOfFrequencies(stats) ==
    IF stats = <<>> THEN 0 ELSE Head(stats).frequency + SumOfFrequencies(Tail(stats))

\* C30: after every order of a cmd_frequent scan and in its result,
\* total_products is the sum of the frequencies of all stats and the number
\* of analysed orders is at most the number of listed orders, also when the
\* reading of an order failed partway.
C30_TotalIsSumOfFrequencies ==
    (pc \in {"scan", "done"}) =>
        /\ total_products = SumOfFrequencies(product_map)
        /\ processed_orders <= Len(order_history)
        /\ (pc = "done" /\ result.error = "none") =>
            /\ result.total_products = SumOfFrequencies(product_map)
            /\ result.analyzed_orders <= Len(order_history)

====
